---- MODULE Spec2Model ----
(***************************************************************************)
(* A model of the compiler front-end of eve-native (src/src/parser.rs):     *)
(* equality gathering, the unifier, the lowerer, the sub-block stitcher.    *)
(*                                                                          *)
(* Two specifications share the module:                                     *)
(*   SpecUnify  the fixed-point loop of Node::unify on one scope, run on    *)
(*              bounded lists of equality pairs;                            *)
(*   Spec       parse_string on one block: parse, gather_equalities,       *)
(*              unify, compile (with the stitcher), reassign_registers.     *)
(***************************************************************************)
EXTENDS Integers, Sequences, FiniteSets, TLC

VARIABLES
    upc,      \* SpecUnify: position in Node::unify ("idle" under Spec)
    ucomp,    \* SpecUnify: the Compilation being unified
    ust,      \* SpecUnify: the locals of unify (values, unified, provided, changed)
    rounds,   \* SpecUnify: completed rounds of the while loop
    uinput,   \* SpecUnify: the Compilation as it was handed to unify
    pc,       \* Spec: position in parse_string ("idle" under SpecUnify)
    source,   \* Spec: the block as written
    block_node,  \* Spec: the Node::Block, mutated in place by gather_equalities
    block_comp,  \* Spec: the block's Compilation
    program_blocks,  \* Spec: the blocks emitted for the block
    rpc,      \* SpecReassign: how often reassign_registers has run
    rcomp,    \* SpecReassign: the scope being compacted
    rinput,   \* SpecReassign: the scope before compaction
    dpc,      \* SpecDoc: position in parse_string
    doc,      \* SpecDoc: the blocks of the document, as written
    doc_ix,   \* SpecDoc: `ix`, the number of blocks entered
    doc_blocks,  \* SpecDoc: `program_blocks`
    gcomp,    \* SpecRegisters: the scope get_register is called on
    gparent,  \* SpecRegisters: the scope it is a child of, or None
    glast,    \* SpecRegisters: the last call: its name, its result, the scope before it
    gcalls    \* SpecRegisters: the number of calls made

uvars == <<upc, ucomp, ust, rounds, uinput>>
pvars == <<pc, source, block_node, block_comp, program_blocks>>
rvars == <<rpc, rcomp, rinput>>
dvars == <<dpc, doc, doc_ix, doc_blocks>>
gvars == <<gcomp, gparent, glast, gcalls>>
vars_all == <<upc, ucomp, ust, rounds, uinput, pc, source, block_node, block_comp,
              program_blocks, rpc, rcomp, rinput, dpc, doc, doc_ix, doc_blocks,
              gcomp, gparent, glast, gcalls>>

----------------------------------------------------------------------------
(* Bounds *)

NumRegs == 3      \* registers of the scope in SpecUnify
MaxEqs == 2       \* length of the equality list in SpecUnify
MaxProvided == 1  \* registers provided (by `<-`) before unification
MaxBranches == 3  \* branches of an If form in Spec
HashOrders == 2   \* iteration orders of one HashMap or HashSet in Spec
ChainRegs == 2    \* registers of the scope in SpecChain
MaxChain == 3     \* length of the equality list in SpecChain
ScopeRegs == 3    \* registers of the scope in SpecReassign
MaxRounds == 8    \* rounds of the while loop of unify that are followed
MaxConstraints == 2  \* length of the constraint list in SpecReassign

----------------------------------------------------------------------------
(* Field: Register(i) | Value(v) *)

Register(i) == [k |-> "R", i |-> i]
Value(s) == [k |-> "V", s |-> s]
IsRegister(f) == f.k = "R"
IsValue(f) == f.k = "V"

(* Field::Value(0): the handle no string and no number is interned to *)
Value_0 == [k |-> "V", s |-> "<0>"]

(* HashMap::insert *)
MapInsert(m, key, val) == (key :> val) @@ m
EmptyMap == [x \in {} |-> x]

Range(f) == {f[x] : x \in DOMAIN f}

----------------------------------------------------------------------------
(* Compilation::new *)
Compilation_new(block_name) ==
    [block_name |-> block_name, vars |-> EmptyMap, var_values |-> EmptyMap,
     unified_registers |-> EmptyMap, provided_registers |-> {},
     equalities |-> <<>>, constraints |-> <<>>, sub_blocks |-> <<>>,
     required_fields |-> <<>>, is_child |-> FALSE, id |-> 0,
     panicked |-> FALSE]

(* Compilation::new_child *)
NewChildOffset == 10000
new_child(parent) ==
    [Compilation_new(parent.block_name) EXCEPT !.id = parent.id + NewChildOffset,
                                               !.is_child = TRUE]

(* get_register that inserts the next index but leaves `id` where it was *)
get_register_unadvanced(comp, name) ==
    IF name \in DOMAIN comp.vars
    THEN [comp |-> comp, reg |-> Register(comp.vars[name])]
    ELSE [comp |-> [comp EXCEPT !.vars = MapInsert(@, name, comp.id + 1)],
          reg |-> Register(comp.id + 1)]

(* Compilation::get_register: [comp, reg] *)
get_register(comp, name) ==
    IF name \in DOMAIN comp.vars
    THEN [comp |-> comp, reg |-> Register(comp.vars[name])]
    ELSE [comp |-> [comp EXCEPT !.id = @ + 1, !.vars = MapInsert(@, name, comp.id + 1)],
          reg |-> Register(comp.id + 1)]

(* Compilation::get_unified_register: [comp, reg] *)
get_unified_register(comp, name) ==
    LET g == get_register(comp, name)
    IN IF g.reg \in DOMAIN g.comp.unified_registers
          /\ IsRegister(g.comp.unified_registers[g.reg])
       THEN [comp |-> g.comp, reg |-> g.comp.unified_registers[g.reg]]
       ELSE g

(* Compilation::provide *)
provide(comp, reg) == [comp EXCEPT !.provided_registers = @ \cup {reg}]

(* Compilation::is_provided: [comp, provided] *)
is_provided(comp, name) ==
    LET g == get_register(comp, name)
    IN [comp |-> g.comp, provided |-> g.reg \in g.comp.provided_registers]

(* Compilation::get_value: [comp, val] *)
get_value(comp, name) ==
    LET g == get_register(comp, name)
        val == IF g.reg \in DOMAIN g.comp.var_values THEN g.comp.var_values[g.reg] ELSE g.reg
    IN [comp |-> [g.comp EXCEPT !.var_values = MapInsert(@, g.reg, val)], val |-> val]

(* a `panic!`, a failed `unwrap()` or an index out of bounds while the block is
   lowered: the compilation is lost *)
panic(comp) == [comp EXCEPT !.panicked = TRUE]

(* `first; rest`: a statement is evaluated to its end before the next begins *)
sequenced(first, rest(_)) == CHOOSE done \in {rest(value) : value \in {first}} : TRUE

(* Option<T> *)
None == [none |-> TRUE]
Some(x) == [some |-> x]
IsSome(o) == "some" \in DOMAIN o

(* the Interner: a handle per string and per number *)
interner_string(s) == Value(s)
interner_number(n) == Value("#" \o ToString(n))

----------------------------------------------------------------------------
(* Node *)

Variable(name) == [type |-> "Variable", name |-> name]
RawString(s) == [type |-> "RawString", s |-> s]
Integer(n) == [type |-> "Integer", n |-> n]
Tag(name) == [type |-> "Tag", name |-> name]
Attribute(name) == [type |-> "Attribute", name |-> name]
AttributeEquality(attr, value) == [type |-> "AttributeEquality", attr |-> attr, value |-> value]
Equality(left, right) == [type |-> "Equality", left |-> left, right |-> right]
Inequality(left, right, op) == [type |-> "Inequality", left |-> left, right |-> right, op |-> op]
Record(var, attrs) == [type |-> "Record", var |-> var, attrs |-> attrs]
OutputRecord(var, attrs, output_type) ==
    [type |-> "OutputRecord", var |-> var, attrs |-> attrs, output_type |-> output_type]
Pipe == [type |-> "Pipe"]
Not(sub_id, items) == [type |-> "Not", sub_id |-> sub_id, items |-> items]
IfBranch(sub_block_id, exclusive, result, body) ==
    [type |-> "IfBranch", sub_block_id |-> sub_block_id, exclusive |-> exclusive,
     result |-> result, body |-> body]
If(sub_block_id, exclusive, outputs, branches) ==
    [type |-> "If", sub_block_id |-> sub_block_id, exclusive |-> exclusive,
     outputs |-> outputs, branches |-> branches]
ExprSet(items) == [type |-> "ExprSet", items |-> items]
Search(items) == [type |-> "Search", items |-> items]
Bind(items) == [type |-> "Bind", items |-> items]
Block(search, update) == [type |-> "Block", search |-> search, update |-> update]

Commit(items) == [type |-> "Commit", items |-> items]
NoneValue == [type |-> "NoneValue"]
GeneratedVariable(name) == [type |-> "GeneratedVariable", name |-> name]
RecordSet(records) == [type |-> "RecordSet", records |-> records]
MutatingAttributeAccess(items) == [type |-> "MutatingAttributeAccess", items |-> items]
RecordUpdate(record, op, value, output_type) ==
    [type |-> "RecordUpdate", record |-> record, op |-> op, value |-> value,
     output_type |-> output_type]
AttributeAccess(items) == [type |-> "AttributeAccess", items |-> items]
Infix(left, right, op) ==
    [type |-> "Infix", result |-> None, left |-> left, right |-> right, op |-> op]
EmbeddedString(parts) == [type |-> "EmbeddedString", var |-> None, parts |-> parts]
RecordFunction(op, params, outputs) ==
    [type |-> "RecordFunction", op |-> op, params |-> params, outputs |-> outputs]

(* FunctionInfo and the FUNCTION_INFO registry *)
FunctionInfo_new(raw_params) == [is_multi |-> FALSE, params |-> raw_params, outputs |-> <<>>]
FunctionInfo_multi(raw_params, raw_outputs) ==
    [is_multi |-> TRUE, params |-> raw_params, outputs |-> raw_outputs]

FUNCTION_INFO ==
    [op \in {"math/sin", "math/cos", "string/split"} |->
        CASE op = "math/sin" -> FunctionInfo_new(<<"degrees">>)
          [] op = "math/cos" -> FunctionInfo_new(<<"degrees">>)
          [] op = "string/split" -> FunctionInfo_multi(<<"text", "by">>, <<"token", "index">>)]

(* `iter().enumerate().find(|&(_, t)| t == param)`, counted from 0 *)
find_index(names, param) ==
    IF \E j \in 1..Len(names) : names[j] = param
    THEN Some((CHOOSE j \in 1..Len(names) :
                  names[j] = param /\ \A k \in 1..(j - 1) : names[k] # param) - 1)
    ELSE None

(* FunctionInfo::get_index *)
get_index(info, param) ==
    IF IsSome(find_index(info.params, param))
    THEN [kind |-> "Param", ix |-> find_index(info.params, param).some]
    ELSE IF IsSome(find_index(info.outputs, param))
    THEN [kind |-> "Output", ix |-> find_index(info.outputs, param).some]
    ELSE [kind |-> "Invalid"]

(* SubBlock *)
SubBlock_Not(comp) == [kind |-> "Not", comp |-> comp]
SubBlock_IfBranch(comp, fields) == [kind |-> "IfBranch", comp |-> comp, fields |-> fields]
SubBlock_If(comp, outs, exclusive) ==
    [kind |-> "If", comp |-> comp, outs |-> outs, exclusive |-> exclusive]

----------------------------------------------------------------------------
(* Node::gather_equalities: [comp, node, field] *)

(* lines 291-300 and 301-310: the fresh name and register of a record *)
gather_fresh(comp, prefix) ==
    LET var_name == prefix \o ToString(comp.id)
        g == get_register([comp EXCEPT !.id = @ + 1], var_name)
    IN [comp |-> g.comp, name |-> var_name, reg |-> g.reg]

(* lines 248-257: Equality pushes the pair, and in a child both registers *)
gather_equality(comp, l, r) ==
    LET required == (IF IsRegister(l) THEN <<l>> ELSE <<>>) \o
                    (IF IsRegister(r) THEN <<r>> ELSE <<>>)
    IN [comp EXCEPT !.equalities = Append(@, <<l, r>>),
                    !.required_fields = IF comp.is_child THEN @ \o required ELSE @]

(* lines 312-316: "attr_access" followed by "|" and the item, for every item *)
RECURSIVE access_name(_, _)
access_name(final_var, items) ==
    IF items = <<>> THEN final_var
    ELSE access_name(final_var \o "|" \o Head(items), Tail(items))

RECURSIVE gather_equalities(_, _), gather_each(_, _)

(* `for item in items { item.gather_equalities(interner, cur_block) }` *)
gather_each(nodes, comp) ==
    IF nodes = <<>> THEN [comp |-> comp, nodes |-> <<>>, fields |-> <<>>]
    ELSE sequenced(gather_equalities(Head(nodes), comp), LAMBDA first :
         sequenced(gather_each(Tail(nodes), first.comp), LAMBDA rest :
             [comp |-> rest.comp, nodes |-> <<first.node>> \o rest.nodes,
              fields |-> <<first.field>> \o rest.fields]))

gather_equalities(node, cur_block) ==
    CASE node.type \in {"Pipe", "Tag", "NoneValue", "MutatingAttributeAccess"} ->
            [comp |-> cur_block, node |-> node, field |-> None]
      [] node.type = "Integer" ->
            [comp |-> cur_block, node |-> node, field |-> Some(interner_number(node.n))]
      [] node.type = "RawString" ->
            [comp |-> cur_block, node |-> node, field |-> Some(interner_string(node.s))]
      [] node.type \in {"Variable", "GeneratedVariable", "Attribute"} ->
            LET g == get_register(cur_block, node.name)
            IN [comp |-> g.comp, node |-> node, field |-> Some(g.reg)]
      [] node.type = "AttributeAccess" ->
            LET g == get_register(cur_block, access_name("attr_access", node.items))
            IN [comp |-> g.comp, node |-> node, field |-> Some(g.reg)]
      [] node.type = "Infix" ->
            sequenced(gather_equalities(node.left, cur_block), LAMBDA l :
            sequenced(gather_equalities(node.right, l.comp), LAMBDA r :
            sequenced(gather_fresh(r.comp, "__eve_infix"), LAMBDA fresh :
                [comp |-> fresh.comp,
                 node |-> [node EXCEPT !.left = l.node, !.right = r.node,
                                       !.result = Some(fresh.name)],
                 field |-> Some(fresh.reg)])))
      [] node.type = "EmbeddedString" ->
            sequenced(gather_each(node.parts, cur_block), LAMBDA vs :
            sequenced(gather_fresh(vs.comp, "__eve_concat"), LAMBDA fresh :
                [comp |-> fresh.comp,
                 node |-> [node EXCEPT !.parts = vs.nodes, !.var = Some(fresh.name)],
                 field |-> Some(fresh.reg)]))
      [] node.type = "RecordSet" ->
            LET records == gather_each(node.records, cur_block)
            IN [comp |-> records.comp, node |-> [node EXCEPT !.records = records.nodes],
                field |-> None]
      [] node.type = "RecordFunction" ->
            LET params == gather_each(node.params, cur_block)
                generated == node.outputs = <<>>
                result_name == "__eve_infix" \o ToString(params.comp.id)
                outputs == IF generated THEN <<GeneratedVariable(result_name)>>
                           ELSE node.outputs
                outs == gather_each(outputs,
                                    IF generated THEN [params.comp EXCEPT !.id = @ + 1]
                                    ELSE params.comp)
            IN [comp |-> outs.comp,
                node |-> [node EXCEPT !.params = params.nodes, !.outputs = outs.nodes],
                field |-> outs.fields[1]]
      [] node.type = "RecordUpdate" ->
            LET left == gather_equalities(node.record, cur_block)
                right == gather_equalities(node.value, left.comp)
            IN [comp |-> IF node.op # "<-" THEN right.comp
                         ELSE IF ~IsSome(right.field) THEN panic(right.comp)
                         ELSE IF ~IsSome(left.field)
                              THEN panic(provide(right.comp, right.field.some))
                         ELSE [provide(right.comp, right.field.some) EXCEPT
                                  !.equalities =
                                      Append(@, <<left.field.some, right.field.some>>)],
                node |-> [node EXCEPT !.record = left.node, !.value = right.node],
                field |-> None]
      [] node.type = "AttributeEquality" ->
            LET v == gather_equalities(node.value, cur_block)
            IN [comp |-> v.comp, node |-> [node EXCEPT !.value = v.node], field |-> v.field]
      [] node.type = "Inequality" ->
            LET l == gather_equalities(node.left, cur_block)
                r == gather_equalities(node.right, l.comp)
            IN [comp |-> r.comp, node |-> [node EXCEPT !.left = l.node, !.right = r.node],
                field |-> None]
      [] node.type = "Equality" ->
            LET l == gather_equalities(node.left, cur_block)
                r == gather_equalities(node.right, l.comp)
            IN [comp |-> gather_equality(r.comp, l.field.some, r.field.some),
                node |-> [node EXCEPT !.left = l.node, !.right = r.node],
                field |-> None]
      [] node.type \in {"Record", "OutputRecord"} ->
            LET attrs == gather_each(node.attrs, cur_block)
                fresh == gather_fresh(attrs.comp,
                            IF node.type = "Record" THEN "__eve_record"
                                                    ELSE "__eve_output_record")
            IN [comp |-> fresh.comp,
                node |-> [node EXCEPT !.attrs = attrs.nodes, !.var = Some(fresh.name)],
                field |-> Some(fresh.reg)]
      [] node.type = "Not" ->
            LET child == [new_child(cur_block) EXCEPT !.id = cur_block.id + NewChildOffset]
                items == gather_each(node.items, child)
            IN [comp |-> [cur_block EXCEPT !.sub_blocks = Append(@, SubBlock_Not(items.comp))],
                node |-> [node EXCEPT !.items = items.nodes,
                                      !.sub_id = Len(cur_block.sub_blocks)],
                field |-> None]
      [] node.type = "ExprSet" ->
            LET items == gather_each(node.items, cur_block)
            IN [comp |-> items.comp, node |-> [node EXCEPT !.items = items.nodes],
                field |-> None]
      [] node.type = "IfBranch" ->
            LET body == gather_each(node.body, new_child(cur_block))
                result == gather_equalities(node.result, body.comp)
            IN [comp |-> [cur_block EXCEPT
                             !.sub_blocks = Append(@, SubBlock_IfBranch(result.comp, <<>>))],
                node |-> [node EXCEPT !.body = body.nodes, !.result = result.node,
                                      !.sub_block_id = Len(cur_block.sub_blocks)],
                field |-> None]
      [] node.type = "If" ->
            LET sub_block == new_child(cur_block)
                outs == IF IsSome(node.outputs)
                        THEN gather_each(node.outputs.some, cur_block)
                        ELSE [comp |-> cur_block, nodes |-> <<>>]
                branches == gather_each(node.branches, sub_block)
            IN [comp |-> [outs.comp EXCEPT
                             !.sub_blocks = Append(@, SubBlock_If(branches.comp, <<>>,
                                                                  node.exclusive))],
                node |-> [node EXCEPT
                             !.outputs = IF IsSome(node.outputs) THEN Some(outs.nodes) ELSE None,
                             !.branches = branches.nodes,
                             !.sub_block_id = Len(outs.comp.sub_blocks)],
                field |-> None]
      [] node.type \in {"Search", "Bind", "Commit"} ->
            LET items == gather_each(node.items, cur_block)
            IN [comp |-> items.comp, node |-> [node EXCEPT !.items = items.nodes],
                field |-> None]
      [] node.type = "Block" ->
            LET search == IF IsSome(node.search)
                          THEN gather_equalities(node.search.some, cur_block)
                          ELSE [comp |-> cur_block, node |-> None]
                update == gather_equalities(node.update, search.comp)
            IN [comp |-> update.comp,
                node |-> [node EXCEPT
                             !.search = IF IsSome(node.search) THEN Some(search.node) ELSE None,
                             !.update = update.node],
                field |-> None]

----------------------------------------------------------------------------
(* Node::unify, the scope's own fixed point *)

(* lines 125-135: seed values and unified_registers with the identity on the
   registers of vars, and provided with the provided registers among them *)
unify_seed(comp) ==
    LET fields == {Register(comp.vars[n]) : n \in DOMAIN comp.vars}
    IN [values |-> [f \in (DOMAIN comp.var_values) \cup fields |->
                        IF f \in fields THEN f ELSE comp.var_values[f]],
        unified |-> [f \in (DOMAIN comp.unified_registers) \cup fields |->
                        IF f \in fields THEN f ELSE comp.unified_registers[f]],
        provided |-> {f \in fields : f \in comp.provided_registers},
        changed |-> TRUE,
        fatal |-> FALSE]

(* lines 141-150: the raw pair, lower index wins *)
unify_raw_pair(unified, l, r) ==
    IF IsRegister(l) /\ IsRegister(r)
    THEN IF l.i < r.i THEN MapInsert(unified, r, l)
         ELSE IF r.i < l.i THEN MapInsert(unified, l, r)
         ELSE unified
    ELSE unified

(* values.entry(f).or_insert(f) *)
entry_or_insert(values, f) ==
    IF IsRegister(f) /\ f \notin DOMAIN values THEN MapInsert(values, f, f) ELSE values

(* a unifier that unifies two registers without asking for another round *)
unify_registers_once(st, l, r, left_value, right_value) ==
    IF left_value.i < right_value.i
    THEN [st EXCEPT !.values = MapInsert(@, r, left_value),
                    !.unified = MapInsert(@, r, left_value),
                    !.provided = IF left_value \in @ THEN @ \cup {r} ELSE @]
    ELSE IF right_value.i < left_value.i
    THEN [st EXCEPT !.values = MapInsert(@, l, right_value),
                    !.unified = MapInsert(@, l, right_value),
                    !.provided = IF right_value \in @ THEN @ \cup {l} ELSE @]
    ELSE st

(* lines 155-171: both sides resolve to registers *)
unify_registers(st, l, r, left_value, right_value) ==
    IF left_value.i < right_value.i
    THEN [st EXCEPT !.values = MapInsert(@, r, left_value),
                    !.unified = MapInsert(@, r, left_value),
                    !.provided = IF left_value \in @ THEN @ \cup {r} ELSE @,
                    !.changed = TRUE]
    ELSE IF right_value.i < left_value.i
    THEN [st EXCEPT !.values = MapInsert(@, l, right_value),
                    !.unified = MapInsert(@, l, right_value),
                    !.provided = IF right_value \in @ THEN @ \cup {l} ELSE @,
                    !.changed = TRUE]
    ELSE st

(* a unifier that asks for another round without recording the value *)
unify_value_unrecorded(st, reg, other) ==
    [st EXCEPT !.provided = @ \cup {reg},
               !.changed = TRUE]

(* lines 172-181: one side resolves to a register, the other to a value *)
unify_value(st, reg, other) ==
    [st EXCEPT !.values = MapInsert(@, reg, other),
               !.provided = @ \cup {reg},
               !.changed = TRUE]

(* a unifier that lets two different values pass *)
unify_pair_lenient(st0, l, r) ==
    LET u1 == unify_raw_pair(st0.unified, l, r)
        v1 == entry_or_insert(st0.values, l)
        left_value == IF IsRegister(l) THEN v1[l] ELSE l
        v2 == entry_or_insert(v1, r)
        right_value == IF IsRegister(r) THEN v2[r] ELSE r
        st == [st0 EXCEPT !.unified = u1, !.values = v2]
    IN IF IsRegister(left_value) /\ IsRegister(right_value)
       THEN unify_registers(st, l, r, left_value, right_value)
       ELSE IF IsRegister(left_value) THEN unify_value(st, l, right_value)
       ELSE IF IsRegister(right_value) THEN unify_value(st, r, left_value)
       ELSE st

(* lines 140-184: the body of the for loop, for one pair *)
unify_pair(st0, l, r) ==
    LET u1 == unify_raw_pair(st0.unified, l, r)
        v1 == entry_or_insert(st0.values, l)
        left_value == IF IsRegister(l) THEN v1[l] ELSE l
        v2 == entry_or_insert(v1, r)
        right_value == IF IsRegister(r) THEN v2[r] ELSE r
        st == [st0 EXCEPT !.unified = u1, !.values = v2]
    IN IF st0.fatal THEN st0
       ELSE IF IsRegister(left_value) /\ IsRegister(right_value)
            THEN unify_registers(st, l, r, left_value, right_value)
       ELSE IF IsRegister(left_value) THEN unify_value(st, l, right_value)
       ELSE IF IsRegister(right_value) THEN unify_value(st, r, left_value)
       ELSE IF left_value # right_value THEN [st EXCEPT !.fatal = TRUE]
       ELSE st

(* lines 139-184: one round of the while loop over all the pairs *)
RECURSIVE unify_pairs(_, _)
unify_pairs(st, eqs) ==
    IF eqs = <<>> THEN st
    ELSE unify_pairs(unify_pair(st, Head(eqs)[1], Head(eqs)[2]), Tail(eqs))

unify_round(st, eqs) == unify_pairs([st EXCEPT !.changed = FALSE], eqs)

(* lines 136-185: rounds until nothing changes, or the panic *)
RECURSIVE unify_loop(_, _)
unify_loop(st, eqs) ==
    IF st.fatal \/ ~st.changed THEN st
    ELSE unify_loop(unify_round(st, eqs), eqs)

(* lines 186-187, and the maps written through the `ref mut` borrows *)
unify_finish(comp, st) ==
    [comp EXCEPT !.var_values = st.values,
                 !.unified_registers = st.unified,
                 !.provided_registers = st.provided,
                 !.required_fields =
                     [j \in 1..Len(comp.required_fields) |-> st.unified[comp.required_fields[j]]]]

----------------------------------------------------------------------------
(* The iteration order of a HashMap or HashSet: fixed for one instance, and
   one of the orders its hasher's seed selects *)

RECURSIVE set_to_seq(_)
set_to_seq(S) ==
    IF S = {} THEN <<>>
    ELSE LET x == CHOOSE x \in S : TRUE IN <<x>> \o set_to_seq(S \ {x})

remove_at(seq, k) == [j \in 1..(Len(seq) - 1) |-> IF j < k THEN seq[j] ELSE seq[j + 1]]

RECURSIVE permute(_, _)
permute(seq, h) ==
    IF seq = <<>> THEN <<>>
    ELSE LET k == (h % Len(seq)) + 1
         IN <<seq[k]>> \o permute(remove_at(seq, k), h \div Len(seq))

hash_iter(S, h) == permute(set_to_seq(S), h)

----------------------------------------------------------------------------
(* Node::unify with its sub-blocks: [comp, fatal] *)

(* lines 200-211: transfer the parent's vars to the sub-block *)
RECURSIVE transfer_vars(_, _, _)
transfer_vars(names, parent, sub_comp) ==
    IF names = <<>> THEN sub_comp
    ELSE LET k == Head(names)
             v == parent.vars[k]
         IN transfer_vars(Tail(names), parent,
                IF k \in DOMAIN sub_comp.vars
                THEN [sub_comp EXCEPT !.equalities =
                         Append(@, <<Register(v), Register(sub_comp.vars[k])>>)]
                ELSE [sub_comp EXCEPT !.vars = MapInsert(@, k, v)])

RECURSIVE unify(_, _), unify_sub_blocks(_, _, _)

(* lines 192-216 *)
unify_sub_blocks(sub_blocks, comp, h) ==
    IF sub_blocks = <<>> THEN [sub_blocks |-> <<>>, fatal |-> FALSE]
    ELSE LET sub_block == Head(sub_blocks)
             transferred == transfer_vars(hash_iter(DOMAIN comp.vars, h), comp, sub_block.comp)
             first == unify([transferred EXCEPT !.var_values = comp.var_values], h)
             rest == unify_sub_blocks(Tail(sub_blocks), comp, h)
         IN IF first.fatal THEN [sub_blocks |-> sub_blocks, fatal |-> TRUE]
            ELSE [sub_blocks |-> <<[sub_block EXCEPT !.comp = first.comp]>> \o rest.sub_blocks,
                  fatal |-> rest.fatal]

(* lines 123-217 *)
unify(comp, h) ==
    LET st == unify_loop(unify_seed(comp), comp.equalities)
        own == unify_finish(comp, st)
        subs == unify_sub_blocks(own.sub_blocks, own, h)
    IN IF st.fatal THEN [comp |-> comp, fatal |-> TRUE]
       ELSE [comp |-> [own EXCEPT !.sub_blocks = subs.sub_blocks], fatal |-> subs.fatal]

----------------------------------------------------------------------------
(* Constraint, and its constructors *)

make_scan(e, a, v) == [type |-> "Scan", e |-> e, a |-> a, v |-> v]
make_anti_scan(key) == [type |-> "AntiScan", key |-> key]
make_intermediate_insert(key, values, negate) ==
    [type |-> "IntermediateInsert", key |-> key, values |-> values, negate |-> negate]
make_intermediate_scan(key, outputs) ==
    [type |-> "IntermediateScan", key |-> key, outputs |-> outputs]
make_filter(op, l, r) == [type |-> "Filter", op |-> op, left |-> l, right |-> r]
make_function(op, args, out) == [type |-> "Function", op |-> op, args |-> args, out |-> out]
Constraint_Insert(e, a, v, commit) ==
    [type |-> "Insert", e |-> e, a |-> a, v |-> v, commit |-> commit]
make_multi_function(op, args, outs) ==
    [type |-> "MultiFunction", op |-> op, args |-> args, outs |-> outs]
Constraint_Remove(e, a, v) == [type |-> "Remove", e |-> e, a |-> a, v |-> v]
Constraint_RemoveAttribute(e, a) == [type |-> "RemoveAttribute", e |-> e, a |-> a]
Constraint_RemoveEntity(e) == [type |-> "RemoveEntity", e |-> e]

registers_of(fields) == {fields[j] : j \in {j \in 1..Len(fields) : IsRegister(fields[j])}}

(* Constraint::get_registers: all the registers the constraint refers to *)
get_registers(c) ==
    CASE c.type \in {"Scan", "Insert"} -> registers_of(<<c.e, c.a, c.v>>)
      [] c.type = "AntiScan" -> registers_of(c.key)
      [] c.type = "IntermediateScan" -> registers_of(c.key \o c.outputs)
      [] c.type = "IntermediateInsert" -> registers_of(c.key \o c.values)
      [] c.type = "Filter" -> registers_of(<<c.left, c.right>>)
      [] c.type = "Function" -> registers_of(c.args \o <<c.out>>)
      [] c.type = "MultiFunction" -> registers_of(c.args \o c.outs)
      [] c.type = "Remove" -> registers_of(<<c.e, c.a, c.v>>)
      [] c.type = "RemoveAttribute" -> registers_of(<<c.e, c.a>>)
      [] c.type = "RemoveEntity" -> registers_of(<<c.e>>)

(* Constraint::get_output_registers: the registers the constraint produces *)
get_output_registers(c) ==
    CASE c.type = "Scan" -> registers_of(<<c.e, c.a, c.v>>)
      [] c.type = "IntermediateScan" -> registers_of(c.outputs)
      [] c.type = "Function" -> registers_of(<<c.out>>)
      [] c.type = "MultiFunction" -> registers_of(c.outs)
      [] OTHER -> {}

push(comp, c) == [comp EXCEPT !.constraints = Append(@, c)]

----------------------------------------------------------------------------
(* The stitcher: Node::sub_block and its helpers *)

RECURSIVE constraint_registers(_)
constraint_registers(constraints) ==
    IF constraints = <<>> THEN {}
    ELSE get_registers(Head(constraints)) \cup constraint_registers(Tail(constraints))

RECURSIVE constraint_outputs(_)
constraint_outputs(constraints) ==
    IF constraints = <<>> THEN {}
    ELSE get_output_registers(Head(constraints)) \cup constraint_outputs(Tail(constraints))

(* Compilation::get_inputs *)
get_inputs(comp, haystack) ==
    LET regs == constraint_registers(comp.constraints) \cup Range(comp.required_fields)
    IN {out \in constraint_outputs(haystack) : out \in regs}

(* get_input_constraints *)
RECURSIVE get_input_constraints(_, _)
get_input_constraints(needles, haystack) ==
    IF haystack = <<>> THEN <<>>
    ELSE (IF get_output_registers(Head(haystack)) \cap needles # {}
          THEN <<Head(haystack)>> ELSE <<>>)
         \o get_input_constraints(needles, Tail(haystack))

not_tag(block_name, ix) == interner_string(block_name \o "|sub_block|not|" \o ToString(ix))
if_tag(block_name, ix) == interner_string(block_name \o "|sub_block|if|" \o ToString(ix))
branch_tag(block_name, ix, branch_ix) ==
    interner_string(block_name \o "|sub_block|if|" \o ToString(ix) \o "|branch|"
                    \o ToString(branch_ix))

(* lines 890-912: the constraints appended to branch branch_ix of an If *)
(* lines 896-900 *)
branch_negate_insert(block_name, ix, branch_ix, num_branches, inputs) ==
    IF branch_ix + 1 < num_branches
    THEN <<make_intermediate_insert(<<branch_tag(block_name, ix, branch_ix)>> \o inputs,
                                    <<>>, TRUE)>>
    ELSE <<>>

(* a stitcher whose branch also anti-scans its own identifier *)
branch_anti_scans_own(block_name, ix, branch_ix, inputs) ==
    [prev_branch \in 1..(branch_ix + 1) |->
        make_anti_scan(<<branch_tag(block_name, ix, prev_branch - 1)>> \o inputs)]

(* lines 902-906 *)
branch_anti_scans(block_name, ix, branch_ix, inputs) ==
    [prev_branch \in 1..branch_ix |->
        make_anti_scan(<<branch_tag(block_name, ix, prev_branch - 1)>> \o inputs)]

(* lines 894-907 *)
branch_exclusive(block_name, ix, branch_ix, num_branches, inputs) ==
    branch_negate_insert(block_name, ix, branch_ix, num_branches, inputs)
    \o branch_anti_scans(block_name, ix, branch_ix, inputs)

(* a stitcher whose result insert is keyed by the If alone *)
branch_result_insert_bare(block_name, ix, inputs, output_fields) ==
    make_intermediate_insert(<<if_tag(block_name, ix)>>, output_fields, FALSE)

(* lines 908-910 *)
branch_result_insert(block_name, ix, inputs, output_fields) ==
    make_intermediate_insert(<<if_tag(block_name, ix)>> \o inputs, output_fields, FALSE)

fix_up_branch(sub, block_name, ix, branch_ix, num_branches, exclusive, related, inputs) ==
    [sub EXCEPT !.comp.constraints =
        @ \o related
          \o (IF exclusive
              THEN branch_exclusive(block_name, ix, branch_ix, num_branches, inputs)
              ELSE <<>>)
          \o <<branch_result_insert(block_name, ix, inputs, sub.fields)>>]

RECURSIVE sub_block(_, _, _, _, _), stitch_nested(_, _, _, _, _), if_branch_inputs(_, _, _, _, _)

(* lines 841-844 and 867-870: the sub-blocks of a Not or of an If branch, each
   stitched into `constraints`: [sub_blocks, constraints, inputs] *)
stitch_nested(sub_blocks, ix, constraints, next_ancestors, h) ==
    IF sub_blocks = <<>>
    THEN [sub_blocks |-> <<>>, constraints |-> constraints, inputs |-> {}]
    ELSE LET first == sub_block(Head(sub_blocks), ix, constraints, next_ancestors, h)
             rest == stitch_nested(Tail(sub_blocks), ix, first.parent_constraints,
                                   next_ancestors, h)
         IN [sub_blocks |-> <<first.block>> \o rest.sub_blocks,
             constraints |-> rest.constraints,
             inputs |-> first.inputs \cup rest.inputs]

(* lines 861-874: the inputs of every branch: [sub_blocks, all_inputs] *)
if_branch_inputs(branches, ix, parent_constraints, ancestor_constraints, h) ==
    IF branches = <<>> THEN [sub_blocks |-> <<>>, all_inputs |-> {}]
    ELSE LET sub == Head(branches)
             branch_block == sub.comp
             inputs == get_inputs(branch_block, parent_constraints)
             nested == stitch_nested(branch_block.sub_blocks, ix, branch_block.constraints,
                                     ancestor_constraints \o branch_block.constraints, h)
             stitched == [branch_block EXCEPT !.sub_blocks = nested.sub_blocks,
                                              !.constraints = nested.constraints]
             rest == if_branch_inputs(Tail(branches), ix, parent_constraints,
                                      ancestor_constraints, h)
         IN [sub_blocks |-> <<[sub EXCEPT !.comp = stitched]>> \o rest.sub_blocks,
             all_inputs |-> inputs \cup nested.inputs
                            \cup Range(stitched.required_fields) \cup rest.all_inputs]

(* Node::sub_block: [block, parent_constraints, inputs] *)
sub_block(block, ix, parent_constraints, ancestor_constraints, h) ==
    IF block.kind = "Not"
    THEN LET cur_block == block.comp
             nested == stitch_nested(cur_block.sub_blocks, ix, cur_block.constraints,
                                     ancestor_constraints \o cur_block.constraints, h)
             inputs == get_inputs(cur_block, parent_constraints) \cup nested.inputs
             related == get_input_constraints(inputs, ancestor_constraints)
                        \o nested.constraints
             key_attrs == <<not_tag(cur_block.block_name, ix)>> \o hash_iter(inputs, h)
         IN [block |-> [block EXCEPT
                          !.comp.sub_blocks = nested.sub_blocks,
                          !.comp.constraints =
                              Append(related, make_intermediate_insert(key_attrs, <<>>, TRUE))],
             parent_constraints |-> Append(parent_constraints, make_anti_scan(key_attrs)),
             inputs |-> inputs]
    ELSE \* block.kind = "If"; an IfBranch is never stitched on its own (line 857)
         LET cur_block == block.comp
             branches == if_branch_inputs(cur_block.sub_blocks, ix, parent_constraints,
                                          ancestor_constraints, h)
             all_inputs == branches.all_inputs
             related == get_input_constraints(all_inputs, ancestor_constraints)
             inputs == hash_iter(all_inputs, h)
             num_branches == Len(cur_block.sub_blocks)
         IN [block |-> [block EXCEPT !.comp.sub_blocks =
                          [b \in 1..num_branches |->
                              fix_up_branch(branches.sub_blocks[b], cur_block.block_name, ix,
                                            b - 1, num_branches, block.exclusive, related,
                                            inputs)]],
             parent_constraints |->
                 Append(parent_constraints,
                        make_intermediate_scan(<<if_tag(cur_block.block_name, ix)>> \o inputs,
                                               block.outs)),
             inputs |-> all_inputs]

(* lines 824-827: every sub-block of the block, in order *)
RECURSIVE stitch_block(_, _, _)
stitch_block(cur_block, ix, h) ==
    IF ix >= Len(cur_block.sub_blocks) THEN cur_block
    ELSE LET r == sub_block(cur_block.sub_blocks[ix + 1], ix, cur_block.constraints,
                            cur_block.constraints, h)
         IN stitch_block([cur_block EXCEPT !.sub_blocks[ix + 1] = r.block,
                                           !.constraints = r.parent_constraints],
                         ix + 1, h)

----------------------------------------------------------------------------
(* Node::compile: [comp, field] *)

(* lines 746-752 and 759-764: an If output that is a value gets a register *)
if_output_register(comp, val) ==
    LET g == get_register(comp, "__eve_if_output" \o ToString(comp.id))
    IN [comp |-> push([g.comp EXCEPT !.id = @ + 1], make_filter("=", g.reg, val)),
        field |-> g.reg]

(* lines 745-770: one output of an If, compiled to `compiled` *)
if_output(comp, compiled) ==
    IF IsValue(compiled) THEN if_output_register(comp, compiled)
    ELSE LET cur_value == IF compiled \in DOMAIN comp.var_values
                             /\ IsValue(comp.var_values[compiled])
                          THEN comp.var_values[compiled] ELSE compiled
         IN IF IsValue(cur_value) THEN if_output_register(comp, cur_value)
            ELSE [comp |-> comp, field |-> compiled]

(* lines 519-521, 534-536, 544-546: the register of an output of a function *)
function_output_register(comp) ==
    LET g == get_register(comp, "__eve_record_function_output" \o ToString(comp.id))
    IN [comp |-> [g.comp EXCEPT !.id = @ + 1], reg |-> g.reg]

(* lines 512-554: the declared outputs from out_ix on, each against the output
   written at its place: [comp, cur_outputs] *)
RECURSIVE function_outputs(_, _, _, _)
function_outputs(comp, cur_outputs, compiled_outputs, out_ix) ==
    IF out_ix >= Len(cur_outputs) THEN [comp |-> comp, cur_outputs |-> cur_outputs]
    ELSE LET attr_output == cur_outputs[out_ix + 1]
             given == out_ix < Len(compiled_outputs)
             written == given /\ IsSome(compiled_outputs[out_ix + 1])
             maybe_output == IF written THEN compiled_outputs[out_ix + 1].some ELSE attr_output
             fresh == function_output_register(comp)
             filtered == IF attr_output # Value_0
                         THEN push(fresh.comp, make_filter("=", attr_output, fresh.reg))
                         ELSE fresh.comp
             step ==
                 CASE given /\ ~written ->
                        [comp |-> panic(comp), out |-> attr_output]
                   [] written /\ attr_output = Value_0 /\ IsRegister(maybe_output) ->
                        [comp |-> comp, out |-> maybe_output]
                   [] written /\ attr_output = Value_0 /\ IsValue(maybe_output) ->
                        [comp |-> push(fresh.comp, make_filter("=", fresh.reg, maybe_output)),
                         out |-> fresh.reg]
                   [] written /\ IsValue(attr_output) /\ attr_output # Value_0
                              /\ IsRegister(maybe_output) ->
                        [comp |-> push(comp, make_filter("=", attr_output, maybe_output)),
                         out |-> maybe_output]
                   [] written /\ IsRegister(attr_output) ->
                        [comp |-> push(comp, make_filter("=", attr_output, maybe_output)),
                         out |-> attr_output]
                   [] ~given /\ IsValue(attr_output) ->
                        [comp |-> filtered, out |-> fresh.reg]
                   [] written /\ IsValue(attr_output) /\ attr_output # Value_0
                              /\ IsValue(maybe_output) ->
                        IF attr_output # maybe_output
                        THEN [comp |-> panic(comp), out |-> attr_output]
                        ELSE [comp |-> filtered, out |-> fresh.reg]
                   [] OTHER -> [comp |-> comp, out |-> attr_output]
         IN function_outputs(step.comp, [cur_outputs EXCEPT ![out_ix + 1] = step.out],
                             compiled_outputs, out_ix + 1)

(* lines 462-468 and 479-485: the output register of a concat or of an infix
   named `name`, with the Filter on its value where it has one *)
function_result(comp, name) ==
    LET out_reg == get_register(comp, name)
        out_value == get_value(out_reg.comp, name)
    IN IF IsRegister(out_value.val)
       THEN [comp |-> out_value.comp, out_reg |-> out_value.val]
       ELSE [comp |-> push(out_value.comp, make_filter("=", out_reg.reg, out_value.val)),
             out_reg |-> out_reg.reg]

(* the constraints of lines 696-711 with the Insert of `:=` ahead of its
   RemoveAttribute *)
update_constraints_insert_first(op, reg, a, v, commit) ==
    IF op = ":=" /\ a # Value_0 /\ v # Value_0
    THEN Some(<<Constraint_Insert(reg, a, v, commit), Constraint_RemoveAttribute(reg, a)>>)
    ELSE IF op = ":=" /\ v = Value_0
    THEN Some(<<IF a = Value_0 THEN Constraint_RemoveEntity(reg)
                ELSE Constraint_RemoveAttribute(reg, a)>>)
    ELSE None

(* lines 696-711: the constraints of an update, None where the match panics *)
update_constraints(op, reg, a, v, commit) ==
    CASE op = ":=" /\ a = Value_0 /\ v = Value_0 -> Some(<<Constraint_RemoveEntity(reg)>>)
      [] op = ":=" /\ a # Value_0 /\ v = Value_0 ->
            Some(<<Constraint_RemoveAttribute(reg, a)>>)
      [] op = ":=" /\ v # Value_0 ->
            Some(<<Constraint_RemoveAttribute(reg, a), Constraint_Insert(reg, a, v, commit)>>)
      [] op # ":=" /\ a = Value_0 /\ v = Value_0 -> Some(<<>>)
      [] op = "+=" /\ ~(a = Value_0 /\ v = Value_0) ->
            Some(<<Constraint_Insert(reg, a, v, commit)>>)
      [] op = "-=" /\ ~(a = Value_0 /\ v = Value_0) ->
            Some(<<Constraint_Remove(reg, a, v)>>)
      [] OTHER -> None

(* the values of a set after the first, none of them written on the record *)
compile_set_rest_unwritten(items, comp, reg, a, output) == comp

RECURSIVE compile(_, _), compile_each(_, _), compile_attrs(_, _, _, _, _),
          compile_if_outputs(_, _), compile_set_rest(_, _, _, _, _),
          function_params(_, _, _, _, _), mutating_scans(_, _, _, _)

(* lines 577-580, 584-587 (pattern) and 632-635, 639-642 (output): each of
   items[1..] compiled and written on the record `reg` under attribute a *)
compile_set_rest(items, comp, reg, a, output) ==
    IF items = <<>> THEN comp
    ELSE sequenced(compile(Head(items), comp), LAMBDA cur_v :
             compile_set_rest(Tail(items),
                              push(cur_v.comp,
                                   IF output.is_output
                                   THEN Constraint_Insert(reg, a, cur_v.field.some,
                                                          output.commit)
                                   ELSE make_scan(reg, a, cur_v.field.some)),
                              reg, a, output))

(* lines 495-510: the parameters written at the call, each at its declared
   place: [comp, cur_params, cur_outputs] *)
function_params(params, comp, info, cur_params, cur_outputs) ==
    IF params = <<>>
    THEN [comp |-> comp, cur_params |-> cur_params, cur_outputs |-> cur_outputs]
    ELSE LET param == Head(params)
         IN IF param.type \notin {"Attribute", "AttributeEquality"}
            THEN [comp |-> panic(comp), cur_params |-> cur_params,
                  cur_outputs |-> cur_outputs]
            ELSE sequenced(
                     IF param.type = "Attribute"
                     THEN LET g == get_value(comp, param.name)
                          IN [comp |-> g.comp, a |-> param.name, v |-> Some(g.val)]
                     ELSE sequenced(compile(param.value, comp), LAMBDA v :
                              [comp |-> v.comp, a |-> param.attr, v |-> v.field]),
                     LAMBDA given :
                 LET place == get_index(info, given.a)
                 IN IF ~IsSome(given.v) \/ place.kind = "Invalid"
                    THEN [comp |-> panic(given.comp), cur_params |-> cur_params,
                          cur_outputs |-> cur_outputs]
                    ELSE function_params(Tail(params), given.comp, info,
                             IF place.kind = "Param"
                             THEN [cur_params EXCEPT ![place.ix + 1] = given.v.some]
                             ELSE cur_params,
                             IF place.kind = "Output"
                             THEN [cur_outputs EXCEPT ![place.ix + 1] = given.v.some]
                             ELSE cur_outputs))

(* lines 436-442: a Scan from each of `items` to the next *)
mutating_scans(items, comp, parent, final_var) ==
    IF items = <<>> THEN [comp |-> comp, parent |-> parent]
    ELSE LET name == final_var \o "|" \o Head(items)
             next == get_unified_register(comp, name)
         IN mutating_scans(Tail(items),
                           push(next.comp, make_scan(parent, interner_string(Head(items)),
                                                     next.reg)),
                           next.reg, name)

(* `for s in statements { s.compile(interner, cur_block) }`: [comp, fields] *)
compile_each(nodes, comp) ==
    IF nodes = <<>> THEN [comp |-> comp, fields |-> <<>>]
    ELSE sequenced(compile(Head(nodes), comp), LAMBDA first :
         sequenced(compile_each(Tail(nodes), first.comp), LAMBDA rest :
             [comp |-> rest.comp, fields |-> <<first.field>> \o rest.fields]))

(* lines 569-608 (pattern) and 620-656 (output): one constraint per attribute of
   the record `reg`: [comp, identity_attrs] *)
compile_attrs(attrs, comp, reg, output, identity_contributing) ==
    IF attrs = <<>> THEN [comp |-> comp, identity_attrs |-> <<>>]
    ELSE LET attr == Head(attrs)
             compiled ==
                 CASE attr.type = "Tag" ->
                        [comp |-> comp, a |-> interner_string("tag"),
                         v |-> interner_string(attr.name)]
                   [] attr.type = "Attribute" ->
                        LET g == get_unified_register(comp, attr.name)
                        IN [comp |-> g.comp, a |-> interner_string(attr.name), v |-> g.reg]
                   [] attr.type = "AttributeEquality" ->
                        LET result_a == interner_string(attr.attr)
                            set == CASE attr.value.type = "RecordSet" -> attr.value.records
                                     [] attr.value.type = "ExprSet" -> attr.value.items
                                     [] OTHER -> <<>>
                        IN sequenced(compile_set_rest(IF set = <<>> THEN <<>> ELSE Tail(set),
                                                      comp, reg, result_a, output),
                                     LAMBDA rest :
                           sequenced(compile(IF set = <<>> THEN attr.value ELSE set[1], rest),
                                     LAMBDA result :
                               [comp |-> result.comp, a |-> result_a,
                                v |-> result.field.some]))
             constraint(done) ==
                 IF output.is_output
                 THEN Constraint_Insert(reg, done.a, done.v, output.commit)
                 ELSE make_scan(reg, done.a, done.v)
         IN IF attr.type = "Pipe"
            THEN compile_attrs(Tail(attrs), comp, reg, output, FALSE)
            ELSE sequenced(compiled, LAMBDA done :
                 sequenced(compile_attrs(Tail(attrs), push(done.comp, constraint(done)), reg,
                                         output, identity_contributing), LAMBDA rest :
                     [comp |-> rest.comp,
                      identity_attrs |-> (IF identity_contributing THEN <<done.v>> ELSE <<>>)
                                         \o rest.identity_attrs]))

(* lines 743-774: [comp, fields] *)
compile_if_outputs(outs, comp) ==
    IF outs = <<>> THEN [comp |-> comp, fields |-> <<>>]
    ELSE sequenced(compile(Head(outs), comp), LAMBDA cur :
         sequenced(if_output(cur.comp, cur.field.some), LAMBDA first :
         sequenced(compile_if_outputs(Tail(outs), first.comp), LAMBDA rest :
             [comp |-> rest.comp, fields |-> <<first.field>> \o rest.fields])))

compile(node, cur_block) ==
    CASE node.type = "Integer" -> [comp |-> cur_block, field |-> Some(interner_number(node.n))]
      [] node.type = "RawString" -> [comp |-> cur_block, field |-> Some(interner_string(node.s))]
      [] node.type \in {"Variable", "GeneratedVariable"} ->
            LET g == get_unified_register(cur_block, node.name)
            IN [comp |-> g.comp, field |-> Some(g.reg)]
      [] node.type = "AttributeAccess" ->
            LET parent == get_unified_register(cur_block, node.items[1])
                scans == mutating_scans(Tail(node.items), parent.comp, parent.reg,
                                        "attr_access")
            IN [comp |-> scans.comp, field |-> Some(scans.parent)]
      [] node.type = "EmbeddedString" ->
            sequenced(compile_each(node.parts, cur_block), LAMBDA resolved :
                IF \E j \in 1..Len(resolved.fields) : ~IsSome(resolved.fields[j])
                   \/ ~IsSome(node.var)
                THEN [comp |-> panic(resolved.comp), field |-> None]
                ELSE sequenced(function_result(resolved.comp, node.var.some), LAMBDA out :
                    [comp |-> push(out.comp,
                                   make_function("concat",
                                                 [j \in 1..Len(resolved.fields) |->
                                                      resolved.fields[j].some],
                                                 out.out_reg)),
                     field |-> Some(out.out_reg)]))
      [] node.type = "Infix" ->
            sequenced(compile(node.left, cur_block), LAMBDA left_value :
            IF ~IsSome(left_value.field) THEN [comp |-> panic(left_value.comp), field |-> None]
            ELSE sequenced(compile(node.right, left_value.comp), LAMBDA right_value :
            IF ~IsSome(right_value.field) \/ ~IsSome(node.result)
            THEN [comp |-> panic(right_value.comp), field |-> None]
            ELSE sequenced(function_result(right_value.comp, node.result.some), LAMBDA out :
                [comp |-> push(out.comp,
                               make_function(node.op,
                                             <<left_value.field.some, right_value.field.some>>,
                                             out.out_reg)),
                 field |-> Some(out.out_reg)])))
      [] node.type = "MutatingAttributeAccess" ->
            LET parent == get_unified_register(cur_block, node.items[1])
                len == Len(node.items)
                scans == IF len > 2
                         THEN mutating_scans(SubSeq(node.items, 2, len - 2), parent.comp,
                                             parent.reg, "attr_access")
                         ELSE [comp |-> parent.comp, parent |-> parent.reg]
            IN [comp |-> scans.comp, field |-> Some(scans.parent)]
      [] node.type = "RecordFunction" ->
            IF node.op \notin DOMAIN FUNCTION_INFO
            THEN [comp |-> panic(cur_block), field |-> None]
            ELSE
            LET info == FUNCTION_INFO[node.op]
            IN sequenced(function_params(node.params, cur_block, info,
                                         [j \in 1..Len(info.params) |-> Value_0],
                                         [j \in 1..Len(info.outputs) |-> Value_0]),
                         LAMBDA given :
               sequenced(compile_each(node.outputs, given.comp), LAMBDA compiled_outputs :
               sequenced(function_outputs(compiled_outputs.comp, given.cur_outputs,
                                          compiled_outputs.fields, 0), LAMBDA outs :
                   IF outs.cur_outputs = <<>>
                   THEN [comp |-> panic(outs.comp), field |-> None]
                   ELSE [comp |-> push(outs.comp,
                                       IF info.is_multi
                                       THEN make_multi_function(node.op, given.cur_params,
                                                                outs.cur_outputs)
                                       ELSE make_function(node.op, given.cur_params,
                                                          outs.cur_outputs[1])),
                         field |-> Some(outs.cur_outputs[1])])))
      [] node.type = "RecordUpdate" ->
            LET commit == node.output_type = "Commit"
                val == node.value
            IN sequenced(
                   IF node.record.type = "MutatingAttributeAccess"
                   THEN sequenced(compile(node.record, cur_block), LAMBDA parent :
                            [comp |-> parent.comp, reg |-> parent.field.some,
                             attr |-> Some(node.record.items[Len(node.record.items)]),
                             valid |-> TRUE])
                   ELSE IF node.record.type = "Variable"
                   THEN LET g == get_unified_register(cur_block, node.record.name)
                        IN [comp |-> g.comp, reg |-> g.reg, attr |-> None, valid |-> TRUE]
                   ELSE [comp |-> cur_block, reg |-> Value_0, attr |-> None,
                         valid |-> FALSE],
                   LAMBDA target :
               sequenced(
                   CASE ~target.valid -> [comp |-> panic(target.comp)]
                     [] ~IsSome(target.attr) /\ val.type = "Tag" ->
                           [comp |-> target.comp, a |-> interner_string("tag"),
                            v |-> interner_string(val.name)]
                     [] ~IsSome(target.attr) /\ val.type = "NoneValue" ->
                           [comp |-> target.comp, a |-> Value_0, v |-> Value_0]
                     [] IsSome(target.attr) /\ val.type = "NoneValue" ->
                           [comp |-> target.comp, a |-> interner_string(target.attr.some),
                            v |-> Value_0]
                     [] IsSome(target.attr) /\ val.type # "NoneValue" ->
                           sequenced(compile(val, target.comp), LAMBDA v :
                               IF IsSome(v.field)
                               THEN [comp |-> v.comp,
                                     a |-> interner_string(target.attr.some),
                                     v |-> v.field.some]
                               ELSE [comp |-> panic(v.comp)])
                     [] ~IsSome(target.attr) /\ val.type = "OutputRecord"
                                             /\ node.op = "<-" ->
                           [comp |-> compile(val, target.comp).comp,
                            a |-> Value_0, v |-> Value_0]
                     [] OTHER -> [comp |-> panic(target.comp)],
                   LAMBDA triple :
               sequenced(IF triple.comp.panicked THEN Some(<<>>)
                         ELSE update_constraints(node.op, target.reg, triple.a, triple.v,
                                                 commit),
                         LAMBDA emitted :
                   IF ~IsSome(emitted) THEN [comp |-> panic(triple.comp), field |-> None]
                   ELSE [comp |-> [triple.comp EXCEPT !.constraints = @ \o emitted.some],
                         field |-> Some(target.reg)])))
      [] node.type = "Equality" ->
            sequenced(compile(node.left, cur_block), LAMBDA l :
            sequenced(compile(node.right, l.comp), LAMBDA r :
                [comp |-> r.comp, field |-> None]))
      [] node.type = "Inequality" ->
            sequenced(compile(node.left, cur_block), LAMBDA l :
            sequenced(compile(node.right, l.comp), LAMBDA r :
                [comp |-> push(r.comp, make_filter(node.op, l.field.some, r.field.some)),
                 field |-> r.field]))
      [] node.type = "Record" ->
            LET g == get_unified_register(cur_block, node.var.some)
            IN sequenced(compile_attrs(node.attrs, g.comp, g.reg, [is_output |-> FALSE], TRUE),
                         LAMBDA attrs : [comp |-> attrs.comp, field |-> Some(g.reg)])
      [] node.type = "OutputRecord" ->
            LET g == get_unified_register(cur_block, node.var.some)
                needs_id == ~is_provided(g.comp, node.var.some).provided
            IN sequenced(compile_attrs(node.attrs, g.comp, g.reg,
                                       [is_output |-> TRUE,
                                        commit |-> node.output_type = "Commit"], TRUE),
                         LAMBDA attrs :
                   [comp |-> IF needs_id
                             THEN push(attrs.comp,
                                       make_function("gen_id", attrs.identity_attrs, g.reg))
                             ELSE attrs.comp,
                    field |-> Some(g.reg)])
      [] node.type = "Not" ->
            sequenced(compile_each(node.items, cur_block.sub_blocks[node.sub_id + 1].comp),
                      LAMBDA sub :
                [comp |-> [cur_block EXCEPT !.sub_blocks[node.sub_id + 1].comp = sub.comp],
                 field |-> None])
      [] node.type = "IfBranch" ->
            sequenced(compile_each(node.body,
                                   cur_block.sub_blocks[node.sub_block_id + 1].comp),
                      LAMBDA body :
            sequenced(compile_each(IF node.result.type = "ExprSet" THEN node.result.items
                                   ELSE <<node.result>>, body.comp),
                      LAMBDA result :
                [comp |-> [cur_block EXCEPT
                              !.sub_blocks[node.sub_block_id + 1].comp = result.comp,
                              !.sub_blocks[node.sub_block_id + 1].fields =
                                  @ \o [j \in 1..Len(result.fields) |->
                                            result.fields[j].some]],
                 field |-> None]))
      [] node.type = "If" ->
            sequenced(compile_if_outputs(IF IsSome(node.outputs) THEN node.outputs.some
                                         ELSE <<>>, cur_block),
                      LAMBDA outs :
            sequenced(compile_each(node.branches,
                                   outs.comp.sub_blocks[node.sub_block_id + 1].comp),
                      LAMBDA branches :
                [comp |-> [outs.comp EXCEPT
                              !.sub_blocks[node.sub_block_id + 1].outs = @ \o outs.fields,
                              !.sub_blocks[node.sub_block_id + 1].comp = branches.comp],
                 field |-> None]))
      [] node.type \in {"Search", "Bind", "Commit"} ->
            [comp |-> compile_each(node.items, cur_block).comp, field |-> None]
      [] OTHER -> [comp |-> panic(cur_block), field |-> None]

(* a panic raised in the scope or in a scope under it *)
RECURSIVE panicked(_)
panicked(comp) ==
    comp.panicked \/ \E j \in 1..Len(comp.sub_blocks) : panicked(comp.sub_blocks[j].comp)

(* lines 819-829: the block, then the stitcher on each of its sub-blocks *)
compile_block(node, cur_block, h) ==
    sequenced(IF IsSome(node.search) THEN compile(node.search.some, cur_block).comp
              ELSE cur_block, LAMBDA search :
    sequenced(compile(node.update, search).comp, LAMBDA update :
        IF panicked(update) THEN update ELSE stitch_block(update, 0, h)))

----------------------------------------------------------------------------
(* Compilation::reassign_registers *)

(* the fields of a constraint, in the order of its declaration *)
constraint_fields(c) ==
    CASE c.type \in {"Scan", "Insert", "Remove"} -> <<c.e, c.a, c.v>>
      [] c.type = "RemoveAttribute" -> <<c.e, c.a>>
      [] c.type = "RemoveEntity" -> <<c.e>>
      [] c.type = "AntiScan" -> c.key
      [] c.type = "IntermediateScan" -> c.key \o c.outputs
      [] c.type = "IntermediateInsert" -> c.key \o c.values
      [] c.type = "Filter" -> <<c.left, c.right>>
      [] c.type = "Function" -> c.args \o <<c.out>>
      [] c.type = "MultiFunction" -> c.args \o c.outs

(* Constraint::get_registers as the Vec it returns *)
registers_in_order(c) ==
    LET fields == constraint_fields(c)
    IN SelectSeq(fields, IsRegister)

(* a compactor that also spends an index on a register bound to a value *)
RECURSIVE reassign_entries_sparse(_, _, _)
reassign_entries_sparse(seq, var_values, acc) ==
    IF seq = <<>> THEN acc
    ELSE LET reg == Head(seq)
         IN IF reg \in DOMAIN acc.regs
            THEN reassign_entries_sparse(Tail(seq), var_values, acc)
            ELSE IF reg \in DOMAIN var_values /\ IsValue(var_values[reg])
            THEN reassign_entries_sparse(Tail(seq), var_values,
                                         [regs |-> MapInsert(acc.regs, reg, var_values[reg]),
                                          ix |-> acc.ix + 1])
            ELSE reassign_entries_sparse(Tail(seq), var_values,
                                         [regs |-> MapInsert(acc.regs, reg, Register(acc.ix)),
                                          ix |-> acc.ix + 1])

(* lines 1025-1038: `regs` and `ix` after the registers of `seq` *)
RECURSIVE reassign_entries(_, _, _)
reassign_entries(seq, var_values, acc) ==
    IF seq = <<>> THEN acc
    ELSE LET reg == Head(seq)
         IN IF reg \in DOMAIN acc.regs
            THEN reassign_entries(Tail(seq), var_values, acc)
            ELSE IF reg \in DOMAIN var_values /\ IsValue(var_values[reg])
            THEN reassign_entries(Tail(seq), var_values,
                                  [acc EXCEPT !.regs = MapInsert(@, reg, var_values[reg])])
            ELSE reassign_entries(Tail(seq), var_values,
                                  [regs |-> MapInsert(acc.regs, reg, Register(acc.ix)),
                                   ix |-> acc.ix + 1])

(* lines 1025-1038, over all the constraints *)
RECURSIVE reassign_map(_, _, _)
reassign_map(constraints, var_values, acc) ==
    IF constraints = <<>> THEN acc
    ELSE reassign_map(Tail(constraints), var_values,
                      reassign_entries(registers_in_order(Head(constraints)), var_values, acc))

replace_field(f, regs) == IF IsRegister(f) /\ f \in DOMAIN regs THEN regs[f] ELSE f
replace_fields(fields, regs) == [j \in DOMAIN fields |-> replace_field(fields[j], regs)]

(* Constraint::replace_registers *)
replace_registers(c, regs) ==
    CASE c.type \in {"Scan", "Insert", "Remove"} ->
            [c EXCEPT !.e = replace_field(@, regs), !.a = replace_field(@, regs),
                      !.v = replace_field(@, regs)]
      [] c.type = "RemoveAttribute" ->
            [c EXCEPT !.e = replace_field(@, regs), !.a = replace_field(@, regs)]
      [] c.type = "RemoveEntity" -> [c EXCEPT !.e = replace_field(@, regs)]
      [] c.type = "AntiScan" -> [c EXCEPT !.key = replace_fields(@, regs)]
      [] c.type = "IntermediateScan" ->
            [c EXCEPT !.key = replace_fields(@, regs), !.outputs = replace_fields(@, regs)]
      [] c.type = "IntermediateInsert" ->
            [c EXCEPT !.key = replace_fields(@, regs), !.values = replace_fields(@, regs)]
      [] c.type = "Filter" ->
            [c EXCEPT !.left = replace_field(@, regs), !.right = replace_field(@, regs)]
      [] c.type = "Function" ->
            [c EXCEPT !.args = replace_fields(@, regs), !.out = replace_field(@, regs)]
      [] c.type = "MultiFunction" ->
            [c EXCEPT !.args = replace_fields(@, regs), !.outs = replace_fields(@, regs)]

reassign_registers(comp) ==
    LET regs == reassign_map(comp.constraints, comp.var_values,
                             [regs |-> EmptyMap, ix |-> 0]).regs
    IN [comp EXCEPT !.constraints =
           [j \in DOMAIN comp.constraints |-> replace_registers(comp.constraints[j], regs)]]

----------------------------------------------------------------------------
(* parse_string: the blocks emitted for one source block *)

Block_new(name, constraints) == [name |-> name, constraints |-> constraints]

(* line 1532: `let sub_ix = 0;`, never assigned again *)
sub_block_name(block_name) ==
    LET sub_ix == 0
    IN block_name \o "|sub_block|" \o ToString(sub_ix)

(* lines 1534-1551: the while loop over `subs`, a stack *)
RECURSIVE emit_sub_blocks(_, _, _)
emit_sub_blocks(subs, block_name, emitted) ==
    IF subs = <<>> THEN emitted
    ELSE LET sub_comp == subs[Len(subs)].comp
             rest == SubSeq(subs, 1, Len(subs) - 1)
             pushed == IF Len(sub_comp.constraints) > 0
                       THEN Append(emitted,
                                   Block_new(sub_block_name(block_name),
                                             reassign_registers(sub_comp).constraints))
                       ELSE emitted
         IN emit_sub_blocks(rest \o sub_comp.sub_blocks, block_name, pushed)

(* lines 1527-1554: comp compacted, then its sub-blocks and the block itself *)
emit_block(comp, block_name) ==
    LET compacted == reassign_registers(comp)
    IN Append(emit_sub_blocks(compacted.sub_blocks, block_name, <<>>),
              Block_new(block_name, compacted.constraints))

----------------------------------------------------------------------------
(* SpecUnify: Node::unify on one scope with registers 1..NumRegs *)

URegs == {Register(i) : i \in 1..NumRegs}
UValues == {Value("a"), Value("b")}
UFields == URegs \cup UValues
UPairs == UFields \X UFields

RECURSIVE SeqsUpTo(_, _)
SeqsUpTo(S, n) ==
    IF n = 0 THEN {<<>>}
    ELSE LET shorter == SeqsUpTo(S, n - 1)
         IN shorter \cup {Append(s, x) : s \in {t \in shorter : Len(t) = n - 1}, x \in S}

VarName(i) == "v" \o ToString(i)

(* the right-hand registers of the pairs: what `<-` may have provided *)
RightRegs(eqs) == {eqs[j][2] : j \in {j \in 1..Len(eqs) : IsRegister(eqs[j][2])}}

UnifyInit ==
    /\ upc = "start"
    /\ rounds = 0
    /\ \E eqs \in SeqsUpTo(UPairs, MaxEqs) :
       \E prov \in {p \in SUBSET RightRegs(eqs) : Cardinality(p) <= MaxProvided} :
          ucomp = [Compilation_new("block") EXCEPT
                      !.vars = [n \in {VarName(i) : i \in 1..NumRegs} |->
                                   CHOOSE i \in 1..NumRegs : VarName(i) = n],
                      !.id = NumRegs,
                      !.equalities = eqs,
                      !.provided_registers = prov]
    /\ uinput = ucomp
    /\ ust = unify_seed(Compilation_new("block"))
    /\ pc = "idle" /\ source = None /\ block_node = None /\ block_comp = None
    /\ program_blocks = <<>>
    /\ rpc = "idle" /\ rcomp = None /\ rinput = None
    /\ dpc = "idle" /\ doc = <<>> /\ doc_ix = 0 /\ doc_blocks = <<>>
    /\ gcomp = None /\ gparent = None /\ glast = None /\ gcalls = 0

UnifySeed ==
    /\ upc = "start"
    /\ ust' = unify_seed(ucomp)
    /\ upc' = "loop"
    /\ UNCHANGED <<ucomp, rounds, uinput, pvars, rvars, dvars, gvars>>

UnifyRound ==
    /\ upc = "loop"
    /\ ust.changed
    /\ ~ust.fatal
    /\ rounds < MaxRounds
    /\ ust' = unify_round(ust, ucomp.equalities)
    /\ rounds' = rounds + 1
    /\ UNCHANGED <<upc, ucomp, uinput, pvars, rvars, dvars, gvars>>

UnifyPanic ==
    /\ upc = "loop"
    /\ ust.fatal
    /\ upc' = "fatal"
    /\ UNCHANGED <<ucomp, ust, rounds, uinput, pvars, rvars, dvars, gvars>>

UnifyReturn ==
    /\ upc = "loop"
    /\ ~ust.changed
    /\ ~ust.fatal
    /\ ucomp' = unify_finish(ucomp, ust)
    /\ upc' = "done"
    /\ UNCHANGED <<ust, rounds, uinput, pvars, rvars, dvars, gvars>>

UnifyNext == UnifySeed \/ UnifyRound \/ UnifyPanic \/ UnifyReturn

SpecUnify == UnifyInit /\ [][UnifyNext]_vars_all

(* the loop is sequential code: it takes its next step whenever it has one *)
SpecUnifyFair == UnifyInit /\ [][UnifyNext]_vars_all /\ WF_vars_all(UnifyNext)

----------------------------------------------------------------------------
(* SpecChain: Node::unify on one scope whose equalities chain the registers
   1..ChainRegs and two values *)

ChainFields == {Register(i) : i \in 1..ChainRegs} \cup UValues

ChainInit ==
    /\ upc = "start"
    /\ rounds = 0
    /\ \E eqs \in SeqsUpTo(ChainFields \X ChainFields, MaxChain) :
          ucomp = [Compilation_new("block") EXCEPT
                      !.vars = [n \in {VarName(i) : i \in 1..ChainRegs} |->
                                   CHOOSE i \in 1..ChainRegs : VarName(i) = n],
                      !.id = ChainRegs,
                      !.equalities = eqs]
    /\ uinput = ucomp
    /\ ust = unify_seed(Compilation_new("block"))
    /\ pc = "idle" /\ source = None /\ block_node = None /\ block_comp = None
    /\ program_blocks = <<>>
    /\ rpc = "idle" /\ rcomp = None /\ rinput = None
    /\ dpc = "idle" /\ doc = <<>> /\ doc_ix = 0 /\ doc_blocks = <<>>
    /\ gcomp = None /\ gparent = None /\ glast = None /\ gcalls = 0

SpecChain == ChainInit /\ [][UnifyNext]_vars_all

----------------------------------------------------------------------------
(* SpecReassign: Compilation::reassign_registers on one scope whose
   constraints refer to the registers 1..ScopeRegs *)

RRegs == {Register(i) : i \in 1..ScopeRegs}

RConstraints ==
    {make_scan(e, Value("tag"), v) : e \in RRegs, v \in RRegs \cup {Value("a")}}
      \cup {make_anti_scan(<<Value("not"), r>>) : r \in RRegs}

(* var_values after unification: a register stands for itself or for a value *)
RVarValues == [RRegs -> {Value("a"), Value("self")}]

ReassignInit ==
    /\ rpc = "start"
    /\ \E constraints \in SeqsUpTo(RConstraints, MaxConstraints) :
       \E bound \in RVarValues :
          rcomp = [Compilation_new("block") EXCEPT
                      !.vars = [n \in {VarName(i) : i \in 1..ScopeRegs} |->
                                   CHOOSE i \in 1..ScopeRegs : VarName(i) = n],
                      !.id = ScopeRegs,
                      !.var_values = [r \in RRegs |->
                                         IF bound[r] = Value("self") THEN r ELSE bound[r]],
                      !.constraints = constraints]
    /\ rinput = rcomp
    /\ upc = "idle" /\ ucomp = None /\ ust = None /\ rounds = 0 /\ uinput = None
    /\ pc = "idle" /\ source = None /\ block_node = None /\ block_comp = None
    /\ program_blocks = <<>>
    /\ dpc = "idle" /\ doc = <<>> /\ doc_ix = 0 /\ doc_blocks = <<>>
    /\ gcomp = None /\ gparent = None /\ glast = None /\ gcalls = 0

(* comp.reassign_registers() *)
ReassignRegisters ==
    /\ rpc = "start"
    /\ rcomp' = reassign_registers(rcomp)
    /\ rpc' = "once"
    /\ UNCHANGED <<rinput, uvars, pvars, dvars, gvars>>

(* comp.reassign_registers(), on the compacted scope *)
ReassignAgain ==
    /\ rpc = "once"
    /\ rcomp' = reassign_registers(rcomp)
    /\ rpc' = "twice"
    /\ UNCHANGED <<rinput, uvars, pvars, dvars, gvars>>

ReassignNext == ReassignRegisters \/ ReassignAgain

SpecReassign == ReassignInit /\ [][ReassignNext]_vars_all

----------------------------------------------------------------------------
(* The parser, on the forms of a block *)

(* if_branch: `if` body `then` result *)
if_branch(b) == IfBranch(0, FALSE, b.result, b.body)

(* if_else_branch, lines 1341-1358: the three alternatives. The second sets
   `exclusive` on a clone of the branch and yields the branch itself. *)
if_else_branch(b) ==
    CASE b.intro = "if" -> if_branch(b)
      [] b.intro = "else if" ->
            LET branch == if_branch(b)
                clone == [branch EXCEPT !.exclusive = TRUE]
            IN IF clone.type = "IfBranch" THEN branch ELSE clone
      [] b.intro = "else" -> IfBranch(0, TRUE, b.result, <<>>)

(* if_expression, lines 1375-1391 *)
if_expression(form) ==
    LET start_branch == if_branch(form.branches[1])
        other_branches == [j \in 1..(Len(form.branches) - 1) |->
                              if_else_branch(form.branches[j + 1])]
        exclusive == \E j \in 1..Len(other_branches) : other_branches[j].exclusive
    IN If(0, exclusive, form.outputs, <<start_branch>> \o other_branches)

(* search_section: each statement by the alternative that accepts it *)
search_section(statements) ==
    Search([j \in 1..Len(statements) |->
               IF statements[j].type = "if_form" THEN if_expression(statements[j])
               ELSE statements[j]])

(* block *)
block(src) == Block(Some(search_section(src.search)), src.update)

----------------------------------------------------------------------------
(* The blocks of Spec, as written *)

PersonPattern == Equality(Variable("p"), Record(None, <<Tag("person"), Attribute("age")>>))
Alias == Equality(Variable("x"), Variable("p"))
DeadPattern == Equality(Variable("p"), Record(None, <<Tag("dead")>>))
DeadWho == Record(None, <<Tag("dead"), AttributeEquality("who", Variable("p"))>>)
PetPattern == Equality(Variable("z"), Record(None, <<Tag("pet")>>))
AgeFilter == Inequality(Variable("age"), Integer(18), ">")
AliveRecord == OutputRecord(None, <<Tag("alive"), Pipe, Attribute("p")>>, "Bind")

NotForms ==
    {Not(0, body) : body \in {<<DeadPattern>>, <<DeadWho>>, <<PetPattern>>, <<AgeFilter>>,
                              <<PetPattern, DeadWho>>, <<AgeFilter, DeadWho>>}}

IfForm(outputs, branches) == [type |-> "if_form", outputs |-> outputs, branches |-> branches]
SourceBranch(intro, body, result) == [intro |-> intro, body |-> body, result |-> result]

FirstBranches ==
    {SourceBranch("if", body, result) :
        body \in {<<AgeFilter>>, <<DeadPattern>>, <<PetPattern>>, <<Not(0, <<DeadWho>>)>>,
                  <<Not(0, <<DeadWho>>), Not(0, <<AgeFilter>>)>>},
        result \in {RawString("first"), Variable("age")}}

OtherBranches ==
    {SourceBranch("if", <<AgeFilter>>, RawString("other")),
     SourceBranch("else if", <<DeadPattern>>, RawString("otherwise")),
     SourceBranch("else", <<>>, RawString("default"))}

IfForms ==
    {IfForm(outputs, <<first>> \o others) :
        outputs \in {None, Some(<<Variable("y")>>)},
        first \in FirstBranches,
        others \in SeqsUpTo(OtherBranches, MaxBranches - 1)}

LeadingForms == {<<>>, <<Not(0, <<DeadWho>>)>>,
                 <<IfForm(None, <<SourceBranch("if", <<AgeFilter>>, RawString("lead"))>>)>>}

Sources ==
    {[search |-> before \o <<PersonPattern>> \o after \o leading \o <<form>>,
      update |-> Bind(<<AliveRecord>>)] :
        before \in {<<>>, <<Alias>>}, after \in {<<>>, <<Alias>>},
        leading \in LeadingForms, form \in NotForms \cup IfForms}

BlockName == "doc|block|1"

----------------------------------------------------------------------------
(* Spec: parse_string on one block *)

Init ==
    /\ pc = "source"
    /\ source \in Sources
    /\ block_node = None
    /\ block_comp = Compilation_new(BlockName)
    /\ program_blocks = <<>>
    /\ upc = "idle" /\ ucomp = None /\ ust = None /\ rounds = 0 /\ uinput = None
    /\ rpc = "idle" /\ rcomp = None /\ rinput = None
    /\ dpc = "idle" /\ doc = <<>> /\ doc_ix = 0 /\ doc_blocks = <<>>
    /\ gcomp = None /\ gparent = None /\ glast = None /\ gcalls = 0

(* markdown: the block parsed *)
Parse ==
    /\ pc = "source"
    /\ block_node' = block(source)
    /\ pc' = "parsed"
    /\ UNCHANGED <<source, block_comp, program_blocks, uvars, rvars, dvars, gvars>>

(* line 1524: block.gather_equalities(interner, &mut comp) *)
GatherEqualities ==
    /\ pc = "parsed"
    /\ \E g \in {gather_equalities(block_node, block_comp)} :
          /\ block_node' = g.node /\ block_comp' = g.comp
          /\ pc' = IF panicked(g.comp) THEN "panic" ELSE "gathered"
    /\ UNCHANGED <<source, program_blocks, uvars, rvars, dvars, gvars>>

(* line 1525: block.unify(&mut comp) *)
Unify ==
    /\ pc = "gathered"
    /\ \E h \in 0..(HashOrders - 1) :
          \E u \in {unify(block_comp, h)} :
             /\ block_comp' = u.comp
             /\ pc' = IF u.fatal THEN "panic" ELSE "unified"
    /\ UNCHANGED <<source, block_node, program_blocks, uvars, rvars, dvars, gvars>>

(* line 1526: block.compile(interner, &mut comp) *)
Compile ==
    /\ pc = "unified"
    /\ \E h \in 0..(HashOrders - 1) :
          \E compiled \in {compile_block(block_node, block_comp, h)} :
             /\ block_comp' = compiled
             /\ pc' = IF panicked(compiled) THEN "panic" ELSE "compiled"
    /\ UNCHANGED <<source, block_node, program_blocks, uvars, rvars, dvars, gvars>>

(* lines 1527-1554: comp.reassign_registers() and the blocks pushed *)
Emit ==
    /\ pc = "compiled"
    /\ block_comp' = reassign_registers(block_comp)
    /\ program_blocks' = emit_block(block_comp, block_comp.block_name)
    /\ pc' = "emitted"
    /\ UNCHANGED <<source, block_node, uvars, rvars, dvars, gvars>>

Next == Parse \/ GatherEqualities \/ Unify \/ Compile \/ Emit

(* lines 1521-1554 for one block, the hash orders given: [fatal, blocks] *)
lower_block(src, block_name, unify_order, compile_order) ==
    sequenced(gather_equalities(block(src), Compilation_new(block_name)), LAMBDA gathered :
    IF panicked(gathered.comp) THEN [fatal |-> TRUE, blocks |-> <<>>]
    ELSE sequenced(unify(gathered.comp, unify_order), LAMBDA unified :
    IF unified.fatal THEN [fatal |-> TRUE, blocks |-> <<>>]
    ELSE sequenced(compile_block(gathered.node, unified.comp, compile_order), LAMBDA compiled :
    IF panicked(compiled) THEN [fatal |-> TRUE, blocks |-> <<>>]
    ELSE [fatal |-> FALSE, blocks |-> emit_block(compiled, block_name)])))

Spec == Init /\ [][Next]_vars_all

----------------------------------------------------------------------------
(* SpecForms: parse_string on one block of records, function calls and updates *)

Red == RawString("red")
Blue == RawString("blue")

(* `[#shirt color: (...)]` *)
ShirtPattern(values) == Record(None, <<Tag("shirt"), AttributeEquality("color", ExprSet(values))>>)
(* `[#team member: [...] [...]]` *)
TeamPattern(records) == Record(None, <<Tag("team"), AttributeEquality("member", RecordSet(records))>>)
(* `outputs = string/split[...]`, `x = math/sin[...]` *)
Split(params, outputs) ==
    RecordFunction("string/split", params, [j \in 1..Len(outputs) |-> Variable(outputs[j])])
Sine(params) == RecordFunction("math/sin", params, <<Variable("x")>>)

FormSearches ==
    {<<PersonPattern>>,
     <<PersonPattern, ShirtPattern(<<Red, Blue>>)>>,
     <<PersonPattern, ShirtPattern(<<Variable("age"), Blue, RawString("green")>>)>>,
     <<PersonPattern, TeamPattern(<<Record(None, <<Tag("a")>>)>>)>>,
     <<PersonPattern, TeamPattern(<<Record(None, <<Tag("a")>>), Record(None, <<Tag("b")>>)>>)>>,
     <<PersonPattern, Split(<<AttributeEquality("text", Variable("age")),
                              AttributeEquality("by", RawString(" "))>>, <<"token", "index">>)>>,
     <<PersonPattern, Split(<<AttributeEquality("text", Variable("age"))>>, <<"token">>)>>,
     <<PersonPattern, Sine(<<AttributeEquality("degrees", Variable("age"))>>)>>}

UpdateTargets ==
    {Variable("p"), MutatingAttributeAccess(<<"p", "age">>),
     MutatingAttributeAccess(<<"p", "pet", "name">>),
     MutatingAttributeAccess(<<"p", "pet", "owner", "name">>)}
UpdateValues == {NoneValue, Integer(30), Variable("age"), Tag("old")}

(* commit_update: every operator but `<-` *)
CommitUpdates ==
    {Commit(<<RecordUpdate(record, op, value, "Commit")>>) :
        record \in UpdateTargets, op \in {":=", "+=", "-="}, value \in UpdateValues}

ColorSet == AttributeEquality("color", ExprSet(<<Red, Blue>>))
FriendSet ==
    AttributeEquality("friend", RecordSet(<<OutputRecord(None, <<Tag("a")>>, "Bind"),
                                            OutputRecord(None, <<Tag("b")>>, "Bind")>>))

OutputRecords ==
    {OutputRecord(None, attrs, "Bind") :
        attrs \in {<<Tag("alive"), Pipe, Attribute("p")>>,
                   <<Tag("alive"), Attribute("p")>>,
                   <<Tag("alive"), Attribute("p"), Pipe, Attribute("age")>>,
                   <<Tag("alive"), AttributeEquality("of", Variable("p")), Pipe,
                     AttributeEquality("age", Integer(30))>>,
                   <<Tag("alive"), ColorSet, Pipe, Attribute("p")>>,
                   <<Tag("alive"), Pipe, ColorSet>>,
                   <<Tag("alive"), FriendSet>>}}

(* output_record, output_equality and bind_update with `<-` *)
BindUpdates ==
    {Bind(<<statement>>) :
        statement \in OutputRecords
            \cup {Equality(Variable("q"), record) : record \in OutputRecords}
            \cup {RecordUpdate(Variable("p"), "<-", record, "Bind") : record \in OutputRecords}}

FormSources ==
    {[search |-> search, update |-> update] :
        search \in FormSearches, update \in CommitUpdates \cup BindUpdates}

FormsInit ==
    /\ pc = "source"
    /\ source \in FormSources
    /\ block_node = None
    /\ block_comp = Compilation_new(BlockName)
    /\ program_blocks = <<>>
    /\ upc = "idle" /\ ucomp = None /\ ust = None /\ rounds = 0 /\ uinput = None
    /\ rpc = "idle" /\ rcomp = None /\ rinput = None
    /\ dpc = "idle" /\ doc = <<>> /\ doc_ix = 0 /\ doc_blocks = <<>>
    /\ gcomp = None /\ gparent = None /\ glast = None /\ gcalls = 0

SpecForms == FormsInit /\ [][Next]_vars_all

----------------------------------------------------------------------------
(* SpecExprs: parse_string on one block of attribute accesses, infix
   expressions, interpolated strings and `<-` *)

MaxStatements == 2  \* statements of the search section after the first

(* `x = p.name`, `x = p.pet.name`, `y = z.name` *)
AccessIs(name, items) == Equality(Variable(name), AttributeAccess(items))
(* `x = age + 1`, `x = "a{{age}}"`, `x = 3` *)
SumIs(name) == Equality(Variable(name), Infix(Variable("age"), Integer(1), "+"))
TextIs(name) ==
    Equality(Variable(name), EmbeddedString(<<RawString("a"), Variable("age")>>))
ValueIs(name, n) == Equality(Variable(name), Integer(n))

ExprStatements ==
    {Alias, AccessIs("x", <<"p", "name">>), AccessIs("x", <<"p", "pet", "name">>),
     AccessIs("y", <<"z", "name">>), SumIs("x"), TextIs("x"), ValueIs("x", 3)}

(* `v <- [#alive]` *)
Merge(name) == RecordUpdate(Variable(name), "<-", OutputRecord(None, <<Tag("alive")>>, "Bind"),
                            "Bind")

ExprUpdates ==
    {Bind(<<statement>>) :
        statement \in {AliveRecord, Merge("p"), Merge("x"),
                       OutputRecord(None, <<Tag("alive"),
                                            AttributeEquality("name", Variable("x"))>>,
                                    "Bind")}}

ExprSources ==
    {[search |-> <<PersonPattern>> \o statements, update |-> update] :
        statements \in SeqsUpTo(ExprStatements, MaxStatements), update \in ExprUpdates}

ExprsInit ==
    /\ pc = "source"
    /\ source \in ExprSources
    /\ block_node = None
    /\ block_comp = Compilation_new(BlockName)
    /\ program_blocks = <<>>
    /\ upc = "idle" /\ ucomp = None /\ ust = None /\ rounds = 0 /\ uinput = None
    /\ rpc = "idle" /\ rcomp = None /\ rinput = None
    /\ dpc = "idle" /\ doc = <<>> /\ doc_ix = 0 /\ doc_blocks = <<>>
    /\ gcomp = None /\ gparent = None /\ glast = None /\ gcalls = 0

SpecExprs == ExprsInit /\ [][Next]_vars_all

----------------------------------------------------------------------------
(* SpecDoc: parse_string on a document of several blocks *)

MaxBlocks == 3

AgeIs(n) == Equality(Variable("age"), Integer(n))

(* the blocks a document is written from; the last asks for age = 1 and
   age = 2 at once *)
DocSources ==
    {[search |-> <<PersonPattern>>, update |-> Bind(<<AliveRecord>>)],
     [search |-> <<PersonPattern, AgeIs(1)>>, update |-> Bind(<<AliveRecord>>)],
     [search |-> <<PersonPattern, Not(0, <<DeadWho>>)>>, update |-> Bind(<<AliveRecord>>)],
     [search |-> <<PersonPattern, AgeIs(1), AgeIs(2)>>, update |-> Bind(<<AliveRecord>>)]}

(* line 1522: format!("{}|block|{}", path, ix) *)
doc_block_name(ix) == "doc" \o "|block|" \o ToString(ix)

DocInit ==
    /\ dpc = "loop"
    /\ doc \in SeqsUpTo(DocSources, MaxBlocks) \ {<<>>}
    /\ doc_ix = 0
    /\ doc_blocks = <<>>
    /\ pc = "idle" /\ source = None /\ block_node = None /\ block_comp = None
    /\ program_blocks = <<>>
    /\ upc = "idle" /\ ucomp = None /\ ust = None /\ rounds = 0 /\ uinput = None
    /\ rpc = "idle" /\ rcomp = None /\ rinput = None
    /\ gcomp = None /\ gparent = None /\ glast = None /\ gcalls = 0

(* lines 1518-1553, one turn of `for block in blocks`: a panic in the turn
   unwinds parse_string, and program_blocks is dropped with its frame *)
DocBlock ==
    /\ dpc = "loop"
    /\ doc_ix < Len(doc)
    /\ \E unify_order \in 0..(HashOrders - 1), compile_order \in 0..(HashOrders - 1) :
          \E lowered \in {lower_block(doc[doc_ix + 1], doc_block_name(doc_ix + 1),
                                       unify_order, compile_order)} :
             /\ doc_ix' = doc_ix + 1
             /\ IF lowered.fatal
                THEN dpc' = "panic" /\ doc_blocks' = <<>>
                ELSE dpc' = "loop" /\ doc_blocks' = doc_blocks \o lowered.blocks
    /\ UNCHANGED <<doc, pvars, uvars, rvars, gvars>>

(* line 1554: program_blocks is the value of parse_string *)
DocReturn ==
    /\ dpc = "loop"
    /\ doc_ix = Len(doc)
    /\ dpc' = "returned"
    /\ UNCHANGED <<doc, doc_ix, doc_blocks, pvars, uvars, rvars, gvars>>

DocNext == DocBlock \/ DocReturn

SpecDoc == DocInit /\ [][DocNext]_vars_all

----------------------------------------------------------------------------
(* Claims about the unifier (SpecUnify) *)

(* one step through var_values; a Value resolves to itself *)
resolve(values, f) == IF IsRegister(f) /\ f \in DOMAIN values THEN values[f] ELSE f

(* var_values followed transitively *)
RECURSIVE resolve_all(_, _)
resolve_all(values, f) ==
    IF IsRegister(f) /\ f \in DOMAIN values /\ values[f] # f
    THEN resolve_all(values, values[f])
    ELSE f

(* C1: after unify returns without the panic, the two sides of every pair of
   `equalities` resolve through var_values to the same Field, in one step and
   followed transitively. *)
C1_EqualitiesResolved ==
    upc = "done" =>
        \A j \in 1..Len(ucomp.equalities) :
            LET l == ucomp.equalities[j][1]
                r == ucomp.equalities[j][2]
            IN /\ resolve(ucomp.var_values, l) = resolve(ucomp.var_values, r)
               /\ resolve_all(ucomp.var_values, l) = resolve_all(ucomp.var_values, r)

(* a register chain that ends in a value, resolved after more than two rounds *)
C1_Witness ==
    /\ upc = "done"
    /\ rounds >= 3
    /\ ucomp.equalities = <<(<<Register(2), Register(3)>>), (<<Register(3), Value("a")>>)>>
    /\ ucomp.var_values[Register(2)] = Value("a")

(* the registers equated with r, directly or through other registers *)
RECURSIVE reg_class(_, _)
reg_class(S, eqs) ==
    LET regPairs == {j \in 1..Len(eqs) : IsRegister(eqs[j][1]) /\ IsRegister(eqs[j][2])}
        T == S \cup {eqs[j][2] : j \in {j \in regPairs : eqs[j][1] \in S}}
               \cup {eqs[j][1] : j \in {j \in regPairs : eqs[j][2] \in S}}
    IN IF T = S THEN S ELSE reg_class(T, eqs)

lowest(S) == CHOOSE f \in S : \A g \in S : f.i <= g.i

(* C2: after unify returns, unified_registers maps every register of the scope
   to the lowest-indexed register of its class under the register-register
   pairs of `equalities`. *)
C2_LowestRepresentative ==
    upc = "done" =>
        \A n \in DOMAIN ucomp.vars :
            LET f == Register(ucomp.vars[n])
            IN ucomp.unified_registers[f] = lowest(reg_class({f}, ucomp.equalities))

(* the orderings of a list *)
orderings(n) == {q \in [1..n -> 1..n] : \A a, b \in 1..n : q[a] = q[b] => a = b}
reorder(eqs, q) == [j \in 1..Len(eqs) |-> eqs[q[j]]]

unify_result(comp) == unify_loop(unify_seed(comp), comp.equalities)

(* C10: the outcome of the fixed point (the panic, or var_values,
   unified_registers and provided_registers) is the same for every ordering of
   the equality pairs. *)
C10_OrderIndependent ==
    upc \in {"done", "fatal"} =>
        \A q \in orderings(Len(uinput.equalities)) :
            LET res == unify_result([uinput EXCEPT !.equalities = reorder(@, q)])
            IN /\ res.fatal = (upc = "fatal")
               /\ upc = "done" =>
                    /\ res.values = ucomp.var_values
                    /\ res.unified = ucomp.unified_registers
                    /\ res.provided = ucomp.provided_registers

----------------------------------------------------------------------------
(* Claims about the stitched block (Spec) *)

Compiled == pc = "compiled"
Statements == block_node.search.some.items
Last(seq) == seq[Len(seq)]
Indices(constraints, type) == {j \in DOMAIN constraints : constraints[j].type = type}
RegisterIndices(constraints) == {r.i : r \in constraint_registers(constraints)}

(* the register the parent's own constraints use for a variable *)
ParentRegister(name) ==
    LET reg == Register(block_comp.vars[name])
    IN IF reg \in DOMAIN block_comp.unified_registers
       THEN block_comp.unified_registers[reg] ELSE reg

(* the sub-blocks of the block; `parent` is the constraint list they were
   stitched into and `outer` the registers allocated on the path above them *)
TopSubs ==
    {[ix |-> j - 1, sub |-> block_comp.sub_blocks[j], parent |-> block_comp.constraints,
      outer |-> Range(block_comp.vars)] : j \in DOMAIN block_comp.sub_blocks}

TopIfs == {t \in TopSubs : t.sub.kind = "If"}

(* the branches of the Ifs of the block *)
Branches ==
    UNION {{[ix |-> t.ix, b |-> b - 1, n |-> Len(t.sub.comp.sub_blocks),
             sub |-> t.sub.comp.sub_blocks[b], top |-> t,
             outer |-> t.outer \cup Range(t.sub.comp.vars)] :
               b \in DOMAIN t.sub.comp.sub_blocks} : t \in TopIfs}

(* the Not sub-blocks nested in a branch *)
NestedSubs ==
    UNION {{[ix |-> br.ix, sub |-> br.sub.comp.sub_blocks[j],
             parent |-> br.sub.comp.constraints,
             outer |-> br.outer \cup Range(br.sub.comp.vars)] :
               j \in DOMAIN br.sub.comp.sub_blocks} : br \in Branches}

NotSubs == {t \in TopSubs \cup NestedSubs : t.sub.kind = "Not"}

BranchIds(br) == {branch_tag(BlockName, br.ix, b) : b \in 0..(br.n - 1)}
BranchAntiScans(br) ==
    {j \in Indices(br.sub.comp.constraints, "AntiScan") :
        br.sub.comp.constraints[j].key[1] \in BranchIds(br)}
NegateInserts(constraints) ==
    {j \in Indices(constraints, "IntermediateInsert") : constraints[j].negate}

(* the constraints the stitcher appended to the parent for a sub-block *)
ParentAntiScans(t) ==
    {j \in Indices(t.parent, "AntiScan") : t.parent[j].key[1] = not_tag(BlockName, t.ix)}
ParentIfScans(t) ==
    {j \in Indices(t.parent, "IntermediateScan") : t.parent[j].key[1] = if_tag(BlockName, t.ix)}

(* `not(p = [#dead])`, with p bound in the parent *)
IsNotOfPattern(n) ==
    /\ n.type = "Not"
    /\ Len(n.items) = 1
    /\ n.items[1].type = "Equality"
    /\ n.items[1].left = Variable("p")
    /\ n.items[1].right.type = "Record"
    /\ n.items[1].right.attrs = <<Tag("dead")>>

PatternScans(constraints) ==
    {j \in Indices(constraints, "Scan") :
        constraints[j].a = Value("tag") /\ constraints[j].v = Value("dead")}

(* C3: for not(v = [#t]) with v bound in the parent, the sub-block's Scans of
   the pattern have v's parent register as entity, that register is in the key
   of the AntiScan appended to the parent, and the sub-block's last constraint
   is an IntermediateInsert with the same key, no values and negate = true. *)
C3_NotJoinsOnParentRegister ==
    Compiled =>
      \A n \in Range(Statements) : IsNotOfPattern(n) =>
        LET cs == block_comp.sub_blocks[n.sub_id + 1].comp.constraints
            v == ParentRegister("p")
            last == Last(cs)
        IN /\ PatternScans(cs) # {}
           /\ \A j \in PatternScans(cs) : cs[j].e = v
           /\ last.type = "IntermediateInsert" /\ last.values = <<>> /\ last.negate
           /\ v \in Range(last.key)
           /\ \E j \in Indices(block_comp.constraints, "AntiScan") :
                 block_comp.constraints[j].key = last.key

(* C4: in an exclusive If with branches b0..bn, branch bk has exactly k
   AntiScans keyed by a branch identifier, one for each of b0..b(k-1); every
   branch but the last has exactly one negate = true IntermediateInsert, keyed
   by its own identifier, and the last branch has none. *)
C4_ExclusiveBranches ==
    Compiled =>
      \A br \in Branches : br.top.sub.exclusive =>
        LET cs == br.sub.comp.constraints
        IN /\ Cardinality(BranchAntiScans(br)) = br.b
           /\ {cs[j].key[1] : j \in BranchAntiScans(br)}
                = {branch_tag(BlockName, br.ix, b) : b \in 0..(br.b - 1)}
           /\ IF br.b + 1 < br.n
              THEN /\ Cardinality(NegateInserts(cs)) = 1
                   /\ \A j \in NegateInserts(cs) :
                         cs[j].key[1] = branch_tag(BlockName, br.ix, br.b)
              ELSE NegateInserts(cs) = {}

(* a third branch of an exclusive If, holding its two AntiScans *)
C4_Witness ==
    /\ Compiled
    /\ \E br \in Branches :
          /\ br.top.sub.exclusive /\ br.n = 3 /\ br.b = 2
          /\ Cardinality(BranchAntiScans(br)) = 2

(* the branches of the If written as statement j are introduced by an `else` *)
HasElse(form) == \E b \in 2..Len(form.branches) : form.branches[b].intro \in {"else if", "else"}

(* C5: an If is compiled as exclusive whenever a branch after the first is
   introduced by `else` (`else if ... then ...` or a bare `else expr`), and as
   non-exclusive only when the form has no `else`. *)
C5_ElseMakesExclusive ==
    Compiled =>
      \A j \in DOMAIN source.search : source.search[j].type = "if_form" =>
        (block_comp.sub_blocks[Statements[j].sub_block_id + 1].exclusive
            <=> HasElse(source.search[j]))

(* C6: for every Not or If sub-block S, every register of S.required_fields
   (for an If: of the required_fields of any of its branches) is in the key of
   the AntiScan (Not) or IntermediateScan (If) appended to the parent for S. *)
C6_RequiredFieldsInKey ==
    Compiled =>
      /\ \A t \in NotSubs :
            /\ ParentAntiScans(t) # {}
            /\ \A j \in ParentAntiScans(t) :
                  registers_of(t.sub.comp.required_fields) \subseteq Range(t.parent[j].key)
      /\ \A br \in Branches :
            /\ ParentIfScans(br.top) # {}
            /\ \A j \in ParentIfScans(br.top) :
                  registers_of(br.sub.comp.required_fields)
                      \subseteq Range(br.top.parent[j].key)

(* C7: every register of a constraint in a scope's final constraint list, the
   keys of the appended AntiScans and IntermediateScans included, is allocated
   in `vars` of that scope or of an ancestor scope, so a register local to a
   sub-block or to one If branch is in no constraint of the parent or of a
   sibling branch. *)
C7_RegistersAllocatedOnPath ==
    Compiled =>
      /\ RegisterIndices(block_comp.constraints) \subseteq Range(block_comp.vars)
      /\ \A t \in NotSubs :
            RegisterIndices(t.sub.comp.constraints)
                \subseteq t.outer \cup Range(t.sub.comp.vars)
      /\ \A br \in Branches :
            RegisterIndices(br.sub.comp.constraints)
                \subseteq br.outer \cup Range(br.sub.comp.vars)

(* the result fields a branch as written asks for *)
ResultAsWritten(result, fields) ==
    /\ Len(fields) = 1
    /\ IF result.type = "RawString" THEN fields[1] = Value(result.s)
       ELSE IsRegister(fields[1])

(* the statement an If sub-block was written as *)
FormOf(t) == CHOOSE j \in DOMAIN source.search :
                 /\ Statements[j].type = "If"
                 /\ Statements[j].sub_block_id = t.ix

(* C8: for every If, the key of the IntermediateScan appended to the parent and
   the key of every branch's final IntermediateInsert (negate = false) are the
   same sequence [if_id, all_inputs...]; the scan's outputs are the If's output
   registers; each branch's final insert carries that branch's result fields;
   and every AntiScan on branch j in a later branch has the key of branch j's
   own negate = true IntermediateInsert. *)
C8_IfKeysAgree ==
    Compiled =>
      \A br \in Branches :
        LET t == br.top
            cs == br.sub.comp.constraints
            last == Last(cs)
            written == source.search[FormOf(t)]
        IN /\ Cardinality(ParentIfScans(t)) = 1
           /\ \A j \in ParentIfScans(t) :
                 /\ t.parent[j].key = last.key
                 /\ t.parent[j].outputs = t.sub.outs
                 /\ Len(t.parent[j].outputs) =
                        (IF IsSome(written.outputs) THEN Len(written.outputs.some) ELSE 0)
           /\ last.type = "IntermediateInsert" /\ ~last.negate
           /\ last.key[1] = if_tag(BlockName, br.ix)
           /\ \A j \in 2..Len(last.key) :
                 IsRegister(last.key[j]) /\ \A k \in 2..(j - 1) : last.key[k] # last.key[j]
           /\ last.values = br.sub.fields
           /\ ResultAsWritten(written.branches[br.b + 1].result, last.values)
           /\ \A j \in BranchAntiScans(br) :
                 \E earlier \in Branches :
                    /\ earlier.top = t /\ earlier.b < br.b
                    /\ cs[j].key[1] = branch_tag(BlockName, br.ix, earlier.b)
                    /\ \E k \in NegateInserts(earlier.sub.comp.constraints) :
                          earlier.sub.comp.constraints[k].key = cs[j].key

(* an exclusive If with an output and two inputs, its second branch stitched *)
C8_Witness ==
    /\ Compiled
    /\ \E br \in Branches :
          /\ br.top.sub.exclusive /\ br.b = 1
          /\ Len(br.top.sub.outs) = 1
          /\ Len(Last(br.sub.comp.constraints).key) >= 3
          /\ BranchAntiScans(br) # {}

Observes == {"Scan", "Filter", "Function", "AntiScan"}

InsertsLast(constraints) ==
    \A i \in Indices(constraints, "IntermediateInsert") :
        \A j \in DOMAIN constraints : constraints[j].type \in Observes => j < i

(* C9: in the final constraint list of every Not sub-block and every If
   branch, every IntermediateInsert comes after all Scan, Filter and Function
   constraints and after every AntiScan of that list. *)
C9_InsertsAfterObserved ==
    Compiled =>
      /\ \A t \in NotSubs : InsertsLast(t.sub.comp.constraints)
      /\ \A br \in Branches : InsertsLast(br.sub.comp.constraints)

----------------------------------------------------------------------------
(* Claims about the compactor (SpecReassign) *)

(* the fields of the scope's constraints: <<constraint, field>> *)
FieldPositions(constraints) ==
    {<<j, m>> \in (DOMAIN constraints) \X (1..3) : m <= Len(constraint_fields(constraints[j]))}
FieldAt(constraints, pos) == constraint_fields(constraints[pos[1]])[pos[2]]

BoundToValue(comp, f) == f \in DOMAIN comp.var_values /\ IsValue(comp.var_values[f])

(* the fields that hold a register not bound to a value *)
FreePositions(comp) ==
    {pos \in FieldPositions(comp.constraints) :
        IsRegister(FieldAt(comp.constraints, pos))
          /\ ~BoundToValue(comp, FieldAt(comp.constraints, pos))}

(* the first constraint a register occurs in *)
FirstOccurrence(constraints, reg) ==
    CHOOSE j \in DOMAIN constraints :
        /\ reg \in get_registers(constraints[j])
        /\ \A k \in 1..(j - 1) : reg \notin get_registers(constraints[k])

(* C12: after reassign_registers the registers of the scope's constraints are
   exactly 0..k-1, numbered in order of first occurrence in the constraint
   list; different registers not bound to a value stay different, and a
   register bound to a value in var_values is replaced by that value. *)
C12_DenseInFirstOccurrenceOrder ==
    rpc = "once" =>
      LET before == rinput.constraints
          after == rcomp.constraints
          used == constraint_registers(after)
      IN /\ Len(after) = Len(before)
         /\ used = {Register(i) : i \in 0..(Cardinality(used) - 1)}
         /\ \A pos \in FieldPositions(before) :
               LET old == FieldAt(before, pos)
                   new == FieldAt(after, pos)
               IN IF IsValue(old) THEN new = old
                  ELSE IF BoundToValue(rinput, old) THEN new = rinput.var_values[old]
                  ELSE IsRegister(new)
         /\ \A p1, p2 \in FreePositions(rinput) :
               LET old1 == FieldAt(before, p1)
                   old2 == FieldAt(before, p2)
               IN /\ (old1 = old2) <=> (FieldAt(after, p1) = FieldAt(after, p2))
                  /\ FirstOccurrence(before, old1) < FirstOccurrence(before, old2)
                        => FieldAt(after, p1).i < FieldAt(after, p2).i

(* two constraints over r3, r1 and r2 with r1 bound to a value, compacted *)
C12_Witness ==
    /\ rpc = "once"
    /\ rinput.constraints = <<make_scan(Register(3), Value("tag"), Register(1)),
                              make_anti_scan(<<Value("not"), Register(2)>>)>>
    /\ rinput.var_values[Register(1)] = Value("a")
    /\ rcomp.constraints = <<make_scan(Register(0), Value("tag"), Value("a")),
                             make_anti_scan(<<Value("not"), Register(1)>>)>>

(* C13: running reassign_registers again on the compacted scope leaves every
   constraint unchanged, whatever var_values holds. *)
C13_CompactionIdempotent ==
    rpc = "twice" => rcomp.constraints = reassign_registers(rinput).constraints

----------------------------------------------------------------------------
(* Claims about the fatal equality (SpecChain) *)

(* the fields equated with a field of S, directly or through other fields *)
RECURSIVE field_class(_, _)
field_class(S, eqs) ==
    LET T == S \cup {eqs[j][2] : j \in {j \in DOMAIN eqs : eqs[j][1] \in S}}
               \cup {eqs[j][1] : j \in {j \in DOMAIN eqs : eqs[j][2] \in S}}
    IN IF T = S THEN S ELSE field_class(T, eqs)

(* the equalities force two different values to be equal *)
ForcesConflict(eqs) ==
    \E v \in UValues : \E w \in field_class({v}, eqs) : IsValue(w) /\ w # v

(* C14: if the equalities force two different values to be equal, directly or
   through a chain of registers, unify ends in the fatal error and does not
   return; if they force no two different values to be equal, unify never
   raises it. *)
C14_FatalIffConflict ==
    /\ upc = "done" => ~ForcesConflict(uinput.equalities)
    /\ upc = "fatal" => ForcesConflict(uinput.equalities)

(* r1 = a, r1 = r2, r2 = b ends in the fatal error *)
C14_Witness ==
    /\ upc = "fatal"
    /\ uinput.equalities = <<(<<Register(1), Value("a")>>), (<<Register(1), Register(2)>>),
                             (<<Register(2), Value("b")>>)>>

----------------------------------------------------------------------------
(* Claims about the emitted blocks (Spec) *)

Emitted == pc = "emitted"

(* C11: compiling the same source again yields the same sequence of blocks and
   constraints after compaction, key field order and register numbering
   included, whatever order `vars` and the sets of inputs are iterated in. *)
C11_Deterministic ==
    Emitted =>
      \A unify_order, compile_order \in 0..(HashOrders - 1) :
         lower_block(source, BlockName, unify_order, compile_order).blocks = program_blocks

(* the sub-blocks among the emitted blocks: all but the last *)
EmittedSubBlocks == SubSeq(program_blocks, 1, Len(program_blocks) - 1)

(* C16: the sub-blocks emitted for source block n are named
   "{path}|block|{n}|sub_block|{k}", k counting the sub-blocks of that block, so
   no two sub-blocks of one source block have the same name. *)
C16_SubBlockNames ==
    Emitted =>
      /\ \A j \in DOMAIN EmittedSubBlocks :
            EmittedSubBlocks[j].name = BlockName \o "|sub_block|" \o ToString(j - 1)
      /\ \A j, k \in DOMAIN EmittedSubBlocks :
            j # k => EmittedSubBlocks[j].name # EmittedSubBlocks[k].name

----------------------------------------------------------------------------
(* Claims about a document of several blocks (SpecDoc) *)

DocDone == dpc \in {"returned", "panic"}

(* the block lowers without a fatal error, under every iteration order *)
Lowers(ix) ==
    \A uo \in 0..(HashOrders - 1), co \in 0..(HashOrders - 1) :
        ~lower_block(doc[ix], doc_block_name(ix), uo, co).fatal

(* C15: when parse_string has ended on a document one of whose blocks is
   fatal, the blocks compiled from every other block of the document, those
   before the fatal one and those after it, are in the value it returns. *)
C15_OtherBlocksReturned ==
    (/\ DocDone
     /\ \E ix \in 1..Len(doc) : ~Lowers(ix)
     /\ \E ix \in 1..Len(doc) : Lowers(ix)) =>
        /\ dpc = "returned"
        /\ \A ix \in 1..Len(doc) :
              Lowers(ix) => \E j \in 1..Len(doc_blocks) : doc_blocks[j].name = doc_block_name(ix)

----------------------------------------------------------------------------
(* Claims about records, function calls and updates (SpecForms) *)

(* the one statement of the bind or commit section *)
UpdateStatement == block_node.update.items[1]

(* the constraints of the search section come first in the block; the rest
   are those of the update section *)
SearchLength ==
    Len(compile(block_node.search.some, [block_comp EXCEPT !.constraints = <<>>]).comp.constraints)
UpdateConstraints ==
    SubSeq(block_comp.constraints, SearchLength + 1, Len(block_comp.constraints))

(* the field a written value stands for *)
ValueAsWritten(node) ==
    CASE node.type = "Integer" -> interner_number(node.n)
      [] node.type = "RawString" -> interner_string(node.s)
      [] node.type = "Tag" -> interner_string(node.name)
      [] node.type \in {"Variable", "Attribute"} -> ParentRegister(node.name)
      [] node.type \in {"Record", "OutputRecord"} -> ParentRegister(node.var.some)

(* the values written for an attribute, one or several *)
ValuesAsWritten(attr) ==
    CASE attr.type \in {"Tag", "Attribute"} -> <<ValueAsWritten(attr)>>
      [] attr.type = "AttributeEquality" /\ attr.value.type = "ExprSet" ->
            [j \in 1..Len(attr.value.items) |-> ValueAsWritten(attr.value.items[j])]
      [] attr.type = "AttributeEquality" /\ attr.value.type = "RecordSet" ->
            [j \in 1..Len(attr.value.records) |-> ValueAsWritten(attr.value.records[j])]
      [] OTHER -> <<ValueAsWritten(attr.value)>>

Sentinelless == {"Scan", "Insert", "Remove", "Filter", "Function", "MultiFunction"}

(* C17: no Scan, Insert, Remove, Filter, Function or MultiFunction of a
   lowered block has Value(0) as one of its fields, whatever update or
   function call the block was written with. *)
C17_NoSentinelField ==
    Compiled =>
        \A j \in DOMAIN block_comp.constraints :
            LET c == block_comp.constraints[j]
            IN c.type \in Sentinelless =>
                  \A k \in DOMAIN constraint_fields(c) : constraint_fields(c)[k] # Value_0

IsSet(op) == UpdateStatement.type = "RecordUpdate" /\ UpdateStatement.op = op
OnVariable == UpdateStatement.record.type = "Variable"
OnAttribute ==
    /\ UpdateStatement.record.type = "MutatingAttributeAccess"
    /\ Len(UpdateStatement.record.items) = 2
SetEntity ==
    ParentRegister(IF OnVariable THEN UpdateStatement.record.name
                   ELSE UpdateStatement.record.items[1])
SetAttribute == interner_string(UpdateStatement.record.items[2])

(* C18: `v := none` lowers to RemoveEntity(v) alone, `v.attr := none` to
   RemoveAttribute(v, attr) alone, and `v.attr := value` to
   RemoveAttribute(v, attr) and then Insert(v, attr, value, commit = true),
   with nothing else. *)
C18_SetLowering ==
    (Compiled /\ IsSet(":=")) =>
        /\ (OnVariable /\ UpdateStatement.value.type = "NoneValue") =>
              UpdateConstraints = <<Constraint_RemoveEntity(SetEntity)>>
        /\ (OnAttribute /\ UpdateStatement.value.type = "NoneValue") =>
              UpdateConstraints = <<Constraint_RemoveAttribute(SetEntity, SetAttribute)>>
        /\ (OnAttribute /\ UpdateStatement.value.type # "NoneValue") =>
              UpdateConstraints =
                  <<Constraint_RemoveAttribute(SetEntity, SetAttribute),
                    Constraint_Insert(SetEntity, SetAttribute,
                                      ValueAsWritten(UpdateStatement.value), TRUE)>>

(* `p.age := 30` lowered after a search with several constraints *)
C18_Witness ==
    /\ Compiled /\ IsSet(":=") /\ OnAttribute
    /\ UpdateStatement.value = Integer(30)
    /\ SearchLength > 2
    /\ Len(UpdateConstraints) = 2

(* the output records of the update section: the one written in the
   statement and those written as the values of its attributes *)
WrittenRecord ==
    CASE UpdateStatement.type = "OutputRecord" -> <<UpdateStatement>>
      [] UpdateStatement.type = "Equality" -> <<UpdateStatement.right>>
      [] UpdateStatement.type = "RecordUpdate" /\ UpdateStatement.value.type = "OutputRecord" ->
            <<UpdateStatement.value>>
      [] OTHER -> <<>>
NestedRecords(record) ==
    UNION {Range(record.attrs[j].value.records) :
              j \in {j \in DOMAIN record.attrs :
                        /\ record.attrs[j].type = "AttributeEquality"
                        /\ record.attrs[j].value.type = "RecordSet"}}
WrittenRecords == Range(WrittenRecord) \cup UNION {NestedRecords(r) : r \in Range(WrittenRecord)}

RECURSIVE IdentityAsWritten(_)
IdentityAsWritten(attrs) ==
    IF attrs = <<>> \/ Head(attrs).type = "Pipe" THEN <<>>
    ELSE ValuesAsWritten(Head(attrs)) \o IdentityAsWritten(Tail(attrs))

SubjectProvided(record) == Register(block_comp.vars[record.var.some]) \in block_comp.provided_registers
GenIds(record) ==
    {j \in Indices(block_comp.constraints, "Function") :
        /\ block_comp.constraints[j].op = "gen_id"
        /\ block_comp.constraints[j].out = ValueAsWritten(record)}

(* C19: an output record whose subject is not provided gets exactly one
   gen_id Function on its subject, whose arguments are, in the order written,
   every value written before the first pipe, each element of a set of values
   among them, and no value written after it; one whose subject is provided
   gets no gen_id. *)
C19_GenIdArguments ==
    Compiled =>
        \A record \in WrittenRecords :
            IF SubjectProvided(record) THEN GenIds(record) = {}
            ELSE /\ Cardinality(GenIds(record)) = 1
                 /\ \A j \in GenIds(record) :
                       block_comp.constraints[j].args = IdentityAsWritten(record.attrs)

(* the pattern records of the search section that give an attribute a set of
   values *)
PatternRecords ==
    {n \in Range(Statements) \cup {s.right : s \in {s \in Range(Statements) : s.type = "Equality"}} :
        n.type = "Record"}
SetAttributes(record) ==
    {j \in DOMAIN record.attrs :
        /\ record.attrs[j].type = "AttributeEquality"
        /\ record.attrs[j].value.type \in {"ExprSet", "RecordSet"}}
ScansOn(record, name) ==
    {j \in Indices(block_comp.constraints, "Scan") :
        /\ block_comp.constraints[j].e = ValueAsWritten(record)
        /\ block_comp.constraints[j].a = interner_string(name)}
Occurrences(seq, x) == Cardinality({j \in DOMAIN seq : seq[j] = x})

(* C20: an attribute of a pattern record written with n values is lowered to
   exactly n Scans on that attribute with the record's subject as entity, as
   many for each value as the times it was written. *)
C20_OneScanPerValue ==
    Compiled =>
        \A record \in PatternRecords : \A j \in SetAttributes(record) :
            LET written == ValuesAsWritten(record.attrs[j])
                scans == ScansOn(record, record.attrs[j].attr)
            IN /\ Cardinality(scans) = Len(written)
               /\ \A x \in Range(written) :
                     Cardinality({k \in scans : block_comp.constraints[k].v = x})
                         = Occurrences(written, x)

(* a set of three values and a set of two records, both lowered *)
C20_Witness ==
    /\ Compiled
    /\ \E record \in PatternRecords : \E j \in SetAttributes(record) :
          /\ Len(ValuesAsWritten(record.attrs[j])) >= 2
          /\ Cardinality(ScansOn(record, record.attrs[j].attr)) >= 2

----------------------------------------------------------------------------
(* C21: the fixed-point loop of unify terminates for every list of pairs: it
   ends with a round that changes nothing (the scope returns) or with the
   value conflict, and never goes on for ever *)
C21_UnifyTerminates == <>(upc \in {"done", "fatal"})

(* a scope that returned after three rounds: two that changed a value and the
   round that changed nothing *)
C21_Witness == upc = "done" /\ rounds >= 3

----------------------------------------------------------------------------
(* Claims about attribute accesses *)

(* the registers reached from those of `from` by one Scan of the block per
   segment *)
RECURSIVE Reached(_, _)
Reached(from, segments) ==
    IF segments = <<>> THEN from
    ELSE Reached({block_comp.constraints[j].v :
                     j \in {j \in Indices(block_comp.constraints, "Scan") :
                               /\ block_comp.constraints[j].e \in from
                               /\ block_comp.constraints[j].a = interner_string(Head(segments))}},
                 Tail(segments))

OnAccess ==
    /\ UpdateStatement.type = "RecordUpdate"
    /\ UpdateStatement.record.type = "MutatingAttributeAccess"

(* C22: for an update of a.s1.....sn, the entity of every Insert, Remove and
   RemoveAttribute of the update is the register reached from a's register by
   one Scan per segment s1..s(n-1), and its attribute is sn. *)
C22_MutatingAccessTarget ==
    (Compiled /\ OnAccess) =>
        LET items == UpdateStatement.record.items
            n == Len(items) - 1
        IN \A j \in DOMAIN UpdateConstraints :
              LET c == UpdateConstraints[j]
              IN c.type \in {"Insert", "Remove", "RemoveAttribute"} =>
                    /\ c.e \in Reached({ParentRegister(items[1])}, SubSeq(items, 2, n))
                    /\ c.a = interner_string(items[n + 1])

(* the statements `x = a.s1.....sn` of the search section *)
AccessEqualities ==
    {j \in DOMAIN Statements :
        /\ Statements[j].type = "Equality"
        /\ Statements[j].left.type = "Variable"
        /\ Statements[j].right.type = "AttributeAccess"}

(* the register that gather_equalities returned for the access *)
GatheredRegister(items) == Register(block_comp.vars[access_name("attr_access", items)])

(* C23: for `x = a.s1.....sn` the block has a chain of n Scans from a's
   register, and the value register of the last one is the canonical register
   of x, the one of the register that equality gathering returned for the
   access. *)
C23_AccessReachesVariable ==
    Compiled =>
        \A j \in AccessEqualities :
            LET items == Statements[j].right.items
                last == Reached({ParentRegister(items[1])}, Tail(items))
            IN /\ last # {}
               /\ ParentRegister(Statements[j].left.name) \in last
               /\ block_comp.unified_registers[GatheredRegister(items)] \in last

(* the value registers of the Scans on the last segment of an access *)
AccessValues(items) == Reached({ParentRegister(items[1])}, Tail(items))

(* C29: two accesses of one scope with different roots and the same path,
   which the program does not equate, are scanned into different value
   registers. *)
C29_AccessesKeptApart ==
    Compiled =>
        \A j, k \in AccessEqualities :
            LET first == Statements[j].right.items
                second == Statements[k].right.items
            IN (/\ first[1] # second[1]
                /\ Tail(first) = Tail(second)
                /\ block_comp.unified_registers[GatheredRegister(first)]
                       # block_comp.unified_registers[GatheredRegister(second)]) =>
                   AccessValues(first) \cap AccessValues(second) = {}

----------------------------------------------------------------------------
(* Claims about infix expressions and interpolated strings (SpecExprs) *)

(* the statements `x = l op r` and `x = "..{{e}}.."` of the search section *)
Computations ==
    {j \in DOMAIN Statements :
        /\ Statements[j].type = "Equality"
        /\ Statements[j].right.type \in {"Infix", "EmbeddedString"}}
ResultName(node) == IF node.type = "Infix" THEN node.result.some ELSE node.var.some
ResultOp(node) == IF node.type = "Infix" THEN node.op ELSE "concat"
ResultValue(node) == block_comp.var_values[Register(block_comp.vars[ResultName(node)])]

(* the constraints of the block itself, as emitted *)
EmittedConstraints == Last(program_blocks).constraints

(* C25: when the result of an infix expression or of an interpolated string is
   unified with a value, the emitted block has a Function whose output is a
   register and a Filter "=" between that register and the value. *)
C25_FunctionKeepsRegister ==
    Emitted =>
        \A j \in Computations :
            LET node == Statements[j].right
            IN IsValue(ResultValue(node)) =>
                  \E f \in Indices(EmittedConstraints, "Function"),
                     g \in Indices(EmittedConstraints, "Filter") :
                      LET function == EmittedConstraints[f]
                          filter == EmittedConstraints[g]
                      IN /\ function.op = ResultOp(node)
                         /\ IsRegister(function.out)
                         /\ filter.op = "="
                         /\ {filter.left, filter.right} = {function.out, ResultValue(node)}

OnMerge ==
    /\ UpdateStatement.type = "RecordUpdate"
    /\ UpdateStatement.op = "<-"
    /\ UpdateStatement.record.type = "Variable"
    /\ UpdateStatement.value.type = "OutputRecord"

(* C26: `v <- [record]` yields no gen_id for the record, and every Insert of
   the record has the canonical register of v as its entity, the register the
   other constraints of the scope use for v, also when v was equated with
   another variable. *)
C26_MergeOnCanonicalRegister ==
    (Compiled /\ OnMerge) =>
        /\ \A j \in Indices(UpdateConstraints, "Function") :
               UpdateConstraints[j].op # "gen_id"
        /\ \A j \in Indices(UpdateConstraints, "Insert") :
               UpdateConstraints[j].e = ParentRegister(UpdateStatement.record.name)

----------------------------------------------------------------------------
(* Claims about function calls (SpecForms) *)

(* the name a parameter is written under *)
ParamName(param) == IF param.type = "Attribute" THEN param.name ELSE param.attr

(* the calls of the search section to a registered function that is not multi,
   with every parameter name in the registry *)
ScalarCalls ==
    {j \in DOMAIN source.search :
        /\ source.search[j].type = "RecordFunction"
        /\ source.search[j].op \in DOMAIN FUNCTION_INFO
        /\ ~FUNCTION_INFO[source.search[j].op].is_multi
        /\ \A k \in DOMAIN source.search[j].params :
               get_index(FUNCTION_INFO[source.search[j].op],
                         ParamName(source.search[j].params[k])).kind = "Param"}

(* C24: a block with a call of a registered scalar function, its parameter
   names all in the registry, is lowered without a fatal error, and has exactly
   one Function constraint for the call, whose output is the register of the
   call's result. *)
C24_ScalarFunctionLowers ==
    (ScalarCalls # {} /\ source.update = Bind(<<AliveRecord>>)) =>
        /\ pc # "panic"
        /\ Compiled =>
              \A j \in ScalarCalls :
                  LET call == source.search[j]
                      functions == {k \in Indices(block_comp.constraints, "Function") :
                                       block_comp.constraints[k].op = call.op}
                  IN /\ Cardinality(functions) = 1
                     /\ \A k \in functions :
                            block_comp.constraints[k].out = ParentRegister(call.outputs[1].name)

----------------------------------------------------------------------------
(* Claims about the variables of the parent in a sub-block (Spec) *)

(* the scopes under the block that lower statements: the Not sub-blocks and
   the branches of the Ifs *)
NotScopes == {t.sub.comp : t \in NotSubs}
BranchScopes == {br.sub.comp : br \in Branches}

(* the variables of the block that a scope mentions: gathering gave them a
   register of the scope's own *)
Mentioned(comp) ==
    {name \in DOMAIN comp.vars \cap DOMAIN block_comp.vars :
        comp.vars[name] # block_comp.vars[name]}

(* the variables that the block unified with a variable of lower index *)
Aliased == {name \in DOMAIN block_comp.vars :
               ParentRegister(name).i < block_comp.vars[name]}

(* the register a scope lowers a variable to *)
ScopeRegister(comp, name) ==
    LET reg == Register(comp.vars[name])
    IN IF reg \in DOMAIN comp.unified_registers THEN comp.unified_registers[reg] ELSE reg

(* C27: a variable that the block unified with a variable of lower index and
   that a Not sub-block or an If branch mentions is lowered in that scope to
   the register the block's own constraints use for it. *)
C27_AliasedVariableInSubBlock ==
    Compiled =>
        \A comp \in NotScopes \cup BranchScopes :
            \A name \in Mentioned(comp) \cap Aliased :
                ScopeRegister(comp, name) = ParentRegister(name)

----------------------------------------------------------------------------
(* Claims about the tags of the Not sub-blocks (Spec) *)

(* the places of the Not sub-blocks of the block: <<j>> is sub-block j of the
   block, <<j, b, k>> is sub-block k of branch b of the If that is sub-block j *)
TopNotPlaces ==
    {<<j>> : j \in {j \in DOMAIN block_comp.sub_blocks : block_comp.sub_blocks[j].kind = "Not"}}
NestedNotPlaces ==
    UNION {UNION {{<<j, b, k>> :
                      k \in {k \in DOMAIN block_comp.sub_blocks[j].comp.sub_blocks[b].comp.sub_blocks :
                                block_comp.sub_blocks[j].comp.sub_blocks[b].comp.sub_blocks[k].kind = "Not"}} :
                   b \in DOMAIN block_comp.sub_blocks[j].comp.sub_blocks} :
           j \in {j \in DOMAIN block_comp.sub_blocks : block_comp.sub_blocks[j].kind = "If"}}
NotPlaces == TopNotPlaces \cup NestedNotPlaces

NotAt(place) ==
    IF Len(place) = 1 THEN block_comp.sub_blocks[place[1]]
    ELSE block_comp.sub_blocks[place[1]].comp.sub_blocks[place[2]].comp.sub_blocks[place[3]]

(* the tag of the intermediate relation a Not sub-block writes *)
NotTag(place) == Last(NotAt(place).comp.constraints).key[1]

(* C28: no two different Not sub-blocks of one block have the same tag as
   the first key field of their intermediate relation. *)
C28_NotTagsDiffer ==
    Compiled =>
        \A one, other \in NotPlaces : one # other => NotTag(one) # NotTag(other)

----------------------------------------------------------------------------
(* SpecRegisters: the registers of one scope *)

MaxCalls == 4    \* calls of get_register that are followed
MaxParentVars == 2    \* variables of the parent of a child scope

RegNames == {"p", "x", "age"}
ParentNames == <<"p", "x">>

(* a parent scope that has allocated its first n variables *)
RECURSIVE ParentScope(_)
ParentScope(n) ==
    IF n = 0 THEN Compilation_new(BlockName)
    ELSE get_register(ParentScope(n - 1), ParentNames[n]).comp

(* a scope is the block's own, or the child of a scope that has allocated
   some variables *)
RegistersInit ==
    /\ \/ gparent = None /\ gcomp = Compilation_new(BlockName)
       \/ \E n \in 0..MaxParentVars :
             gparent = ParentScope(n) /\ gcomp = new_child(gparent)
    /\ glast = None
    /\ gcalls = 0
    /\ upc = "idle" /\ ucomp = None /\ ust = None /\ rounds = 0 /\ uinput = None
    /\ pc = "idle" /\ source = None /\ block_node = None /\ block_comp = None
    /\ program_blocks = <<>>
    /\ rpc = "idle" /\ rcomp = None /\ rinput = None
    /\ dpc = "idle" /\ doc = <<>> /\ doc_ix = 0 /\ doc_blocks = <<>>

(* cur_block.get_register(name), for a variable of the source *)
GetRegister ==
    /\ gcalls < MaxCalls
    /\ \E name \in RegNames :
       \E g \in {get_register(gcomp, name)} :
          /\ gcomp' = g.comp
          /\ glast' = [name |-> name, reg |-> g.reg, before |-> gcomp]
    /\ gcalls' = gcalls + 1
    /\ UNCHANGED <<gparent, uvars, pvars, rvars, dvars>>

(* lines 295-297: the name made from `id`, `id += 1`, then get_register *)
GetFreshRegister ==
    /\ gcalls < MaxCalls
    /\ \E g \in {gather_fresh(gcomp, "__eve_record")} :
          /\ gcomp' = g.comp
          /\ glast' = [name |-> g.name, reg |-> g.reg,
                       before |-> [gcomp EXCEPT !.id = @ + 1]]
    /\ gcalls' = gcalls + 1
    /\ UNCHANGED <<gparent, uvars, pvars, rvars, dvars>>

(* lines 199-210: unify of the parent hands its variables to the child, once *)
ImportVars ==
    /\ gparent # None
    /\ gcomp.equalities = <<>>
    /\ DOMAIN gparent.vars \cap DOMAIN gcomp.vars # DOMAIN gparent.vars
    /\ \E h \in 0..(HashOrders - 1) :
          gcomp' = transfer_vars(hash_iter(DOMAIN gparent.vars, h), gparent, gcomp)
    /\ glast' = None
    /\ UNCHANGED <<gparent, gcalls, uvars, pvars, rvars, dvars>>

RegistersNext == GetRegister \/ GetFreshRegister \/ ImportVars

SpecRegisters == RegistersInit /\ [][RegistersNext]_vars_all

----------------------------------------------------------------------------
(* Claims about get_register (SpecRegisters) *)

(* C30: in a scope where get_register has been called, different names have
   different indices, every index is at least 1, a call with a name that was
   in `vars` returned its index and changed nothing, and a call with a new
   name left the index of every other name as it was. *)
C30_RegistersOfAScope ==
    gcalls > 0 =>
        /\ \A one, other \in DOMAIN gcomp.vars :
               one # other => gcomp.vars[one] # gcomp.vars[other]
        /\ \A name \in DOMAIN gcomp.vars : gcomp.vars[name] >= 1
        /\ glast # None =>
              /\ glast.reg = Register(gcomp.vars[glast.name])
              /\ glast.name \in DOMAIN glast.before.vars =>
                    /\ gcomp = glast.before
                    /\ glast.reg = Register(glast.before.vars[glast.name])
              /\ \A name \in DOMAIN glast.before.vars :
                    gcomp.vars[name] = glast.before.vars[name]

(* calls with new names and then a call with a name of the scope *)
C30_Witness ==
    /\ gcalls >= 3
    /\ glast # None
    /\ glast.name \in DOMAIN glast.before.vars
    /\ Cardinality(DOMAIN gcomp.vars) >= 2

====
